---- MODULE Spec2Model ----
(***************************************************************************)
(* YouPick API server (product/api/server.js) over the PostgreSQL          *)
(* datastore (product/api/datastore.js, docs/schema.sql).                   *)
(*                                                                         *)
(* Strings are sequences of one-character strings.  A request handler is   *)
(* a process whose position (pc) advances at the awaits where it reads or  *)
(* writes the table, takes the row lock or frees it.  The database runs at *)
(* PostgreSQL's default isolation (READ COMMITTED): a plain SELECT sees    *)
(* committed rows, SELECT ... FOR UPDATE, UPDATE and a conflicting INSERT  *)
(* wait for the row lock, and a transaction's writes become visible at     *)
(* COMMIT.  A transaction's statements from BEGIN to its UPDATE are one    *)
(* step: it holds the row lock throughout and nothing it does before       *)
(* COMMIT or ROLLBACK is visible to another request.                       *)
(***************************************************************************)
EXTENDS Integers, Sequences, FiniteSets, TLC

\* ------------------------------------------------------------------ bounds
\* Number of HTTP requests of one run (each may overlap the others).
NumReq == 2

\* The item capacity of a space.  The program's value is 1000
\* (server.js:171, schema.sql:46); the model keeps every comparison against
\* it and scales the number down so that the capacity boundary is reached.
MaxItems == 2

\* The number of requests the global rate limiter lets one IP make within a
\* window.  The program's default is 100 (server.js:52); the model scales it
\* down so that the limit is reached.
RateLimitMaxRequests == 1

\* ------------------------------------------------------- program constants
MaxItemLength == 500
SpaceIdLength == 16
SpaceFragmentLength == 8

\* ------------------------------------------------------------------ strings
Whitespace == {" ", "\t", "\n"}

LowerOf ==
  [c \in {"A", "B", "C", "D", "E", "F", "I", "J", "M", "P", "R", "S", "T", "V"} |->
     CASE c = "A" -> "a" [] c = "B" -> "b" [] c = "C" -> "c" [] c = "D" -> "d"
       [] c = "E" -> "e" [] c = "F" -> "f" [] c = "I" -> "i" [] c = "J" -> "j"
       [] c = "M" -> "m" [] c = "P" -> "p" [] c = "R" -> "r" [] c = "S" -> "s"
       [] c = "T" -> "t" [] c = "V" -> "v"]

toLowerCase(s) ==
  [i \in 1..Len(s) |-> IF s[i] \in DOMAIN LowerOf THEN LowerOf[s[i]] ELSE s[i]]

RECURSIVE trimStart(_)
trimStart(s) ==
  IF s # <<>> /\ Head(s) \in Whitespace THEN trimStart(Tail(s)) ELSE s

RECURSIVE trimEnd(_)
trimEnd(s) ==
  IF s # <<>> /\ s[Len(s)] \in Whitespace
    THEN trimEnd(SubSeq(s, 1, Len(s) - 1))
    ELSE s

\* a trim that takes one whitespace character off each end
trim_once(s) ==
  LET t == IF s # <<>> /\ Head(s) \in Whitespace THEN Tail(s) ELSE s IN
    IF t # <<>> /\ t[Len(t)] \in Whitespace
      THEN SubSeq(t, 1, Len(t) - 1)
      ELSE t

\* String.prototype.trim
trim(s) == trimEnd(trimStart(s))

\* s contains pat as a substring
includesStr(s, pat) ==
  \E i \in 1..(Len(s) - Len(pat) + 1) : SubSeq(s, i, i + Len(pat) - 1) = pat

\* /<script|<iframe|javascript:/i.test(s)
xssPattern(s) ==
  LET l == toLowerCase(s) IN
    \/ includesStr(l, <<"<", "s", "c", "r", "i", "p", "t">>)
    \/ includesStr(l, <<"<", "i", "f", "r", "a", "m", "e">>)
    \/ includesStr(l, <<"j", "a", "v", "a", "s", "c", "r", "i", "p", "t", ":">>)

\* A JSON body value: a string, a number or a missing field.
JsonString(s) == [type |-> "string", str |-> s, num |-> 0, den |-> 1]
JsonNumber(n, d) == [type |-> "number", str |-> <<>>, num |-> n, den |-> d]
JsonUndefined == [type |-> "undefined", str |-> <<>>, num |-> 0, den |-> 1]

\* validateItem(item) of server.js
validateItem(item) ==
  IF \/ item.type = "undefined"
     \/ (item.type = "string" /\ item.str = <<>>)
     \/ (item.type = "number" /\ item.num = 0)
     \/ item.type # "string"
    THEN [valid |-> FALSE, error |-> "Item must be a string", value |-> <<>>]
    ELSE LET trimmed == trim(item.str) IN
      IF trimmed = <<>>
        THEN [valid |-> FALSE, error |-> "Item cannot be empty", value |-> <<>>]
      ELSE IF Len(trimmed) > MaxItemLength
        THEN [valid |-> FALSE, error |-> "Item cannot exceed 500 characters",
              value |-> <<>>]
      ELSE IF xssPattern(trimmed)
        THEN [valid |-> FALSE, error |-> "Invalid characters in item",
              value |-> <<>>]
      ELSE [valid |-> TRUE, error |-> "", value |-> trimmed]

\* ---------------------------------------------------------- parseInt(s, 10)
Digits == <<"0", "1", "2", "3", "4", "5", "6", "7", "8", "9">>
IsDigit(c) == \E d \in 1..10 : Digits[d] = c
DigitVal(c) == (CHOOSE d \in 1..10 : Digits[d] = c) - 1

RECURSIVE digitPrefix(_, _, _)
\* the value of the longest run of digits at the start of s; n counts them
digitPrefix(s, acc, n) ==
  IF s # <<>> /\ IsDigit(Head(s))
    THEN digitPrefix(Tail(s), acc * 10 + DigitVal(Head(s)), n + 1)
    ELSE [val |-> acc, count |-> n]

parseInt(s) ==
  LET t == trimStart(s)
      neg == t # <<>> /\ Head(t) = "-"
      signed == t # <<>> /\ Head(t) \in {"-", "+"}
      p == digitPrefix(IF signed THEN Tail(t) ELSE t, 0, 0)
  IN IF p.count = 0
       THEN [nan |-> TRUE, val |-> 0]
       ELSE [nan |-> FALSE, val |-> IF neg THEN 0 - p.val ELSE p.val]

\* ------------------------------------------------------------- hashPassword
\* SHA-256 hex digests of the passwords the model's clients use.
Password1 == <<"a">>
Password2 == <<"b">>

sha256hex(password) ==
  IF password = Password1
    THEN <<"c","a","9","7","8","1","1","2","c","a","1","b","b","d","c","a",
           "f","a","c","2","3","1","b","3","9","a","2","3","d","c","4","d",
           "a","7","8","6","e","f","f","8","1","4","7","c","4","e","7","2",
           "b","9","8","0","7","7","8","5","a","f","e","e","4","8","b","b">>
    ELSE <<"3","e","2","3","e","8","1","6","0","0","3","9","5","9","4","a",
           "3","3","8","9","4","f","6","5","6","4","e","1","b","1","3","4",
           "8","b","b","d","7","a","0","0","8","8","d","4","2","c","4","a",
           "c","b","7","3","e","e","a","e","d","5","9","c","0","0","9","d">>

\* hashPassword that returns the whole digest
hashPassword_whole_digest(password) == sha256hex(password)

hashPassword(password) == SubSeq(sha256hex(password), 1, SpaceIdLength)

\* ------------------------------------------------------------ request inputs
\* The item texts clients send: one more than the capacity, so that a full
\* space can still be offered a new text.
Letters == <<"A", "B", "C", "D", "E", "F">>
ItemTexts == {<<Letters[i]>> : i \in 1..(MaxItems + 1)}

\* req.body.item
ItemInputs ==
  {JsonString(t) : t \in ItemTexts}
    \cup {JsonString(<<" ", "A", " ">>), JsonString(<<" ">>), JsonUndefined,
          JsonString(<<"<", "S", "c", "r", "i", "p", "t">>)}

\* req.params.index of DELETE /api/items/:index
IndexParams ==
  {<<Digits[i + 1]>> : i \in 0..MaxItems}
    \cup {<<"-", "1">>, <<"x">>, <<"1", ".", "5">>}

\* req.body.index of POST /api/picked
IndexInputs ==
  {JsonNumber(i, 1) : i \in -1..MaxItems} \cup {JsonNumber(1, 2), JsonUndefined}

\* The raw strings handed to validateItem when it is exercised on its own:
\* a text, padded with whitespace or not, that is empty, short, at and over
\* the length limit, on the deny list in either letter case, or close to it.
Repeat(c, n) == [i \in 1..n |-> c]

Pads == {<<>>, <<" ">>, <<"\t", "\n">>}

Cores ==
  {<<>>, <<"A">>, <<"A", " ", "B">>,
   Repeat("A", MaxItemLength), Repeat("A", MaxItemLength + 1),
   <<"<", "s", "c", "r", "i", "p", "t">>,
   <<"<", "S", "c", "R", "i", "P", "t">>,
   <<"<", "I", "F", "R", "A", "M", "E">>,
   <<"J", "a", "v", "a", "S", "c", "r", "i", "p", "t", ":">>,
   <<"j", "a", "v", "a", "s", "c", "r", "i", "p", "t">>,
   <<"<", "s", "c", "r", "i", "p">>,
   <<"s", "c", "r", "i", "p", "t">>,
   <<"A", "<", "s", "c", "r", "i", "p", "t", ">", "B">>,
   Repeat("A", MaxItemLength - 7) \o <<"<", "s", "c", "r", "i", "p", "t">>,
   Repeat("A", MaxItemLength - 6) \o <<"<", "s", "c", "r", "i", "p", "t">>}

RawStrings == {l \o c \o r : l \in Pads, c \in Cores, r \in Pads}

\* the passwords a client may hold
AllPasswords == {Password1, Password2}

\* ------------------------------------------------------------------- state
null == <<>>

VARIABLES
  db,     \* youpick.spaces: space_id -> the committed rows with that key
  lock,   \* space_id -> the request whose transaction holds the row lock, or 0
  req,    \* request -> the handler's position and local variables
  db0,    \* history: the table as it was when the run began
  dbUp,   \* the database answers; while FALSE every statement sent to it fails
  dataFile,    \* file-backed server: the spaces object of DATA_FILE
  writeQueue,  \* file-backed server: the writes waiting in writeQueue
  isWriting,   \* file-backed server: the flag of processWriteQueue
  inProgress,  \* file-backed server: the processWriteQueue calls between
               \* their shift and their finally block
  settled,     \* file-backed server: how many times the promise of each
               \* request's writeData was resolved or rejected
  app,         \* web client: the state of the App component
  pending      \* web client: the fetches and timers that have not finished

fileVars == <<dataFile, writeQueue, isWriting, inProgress, settled>>
webVars == <<app, pending>>

vars == <<db, lock, req, db0, dbUp, fileVars, webVars>>

\* the file-backed server is not part of the run
NoFileServer ==
  /\ dataFile = <<>>
  /\ writeQueue = <<>>
  /\ isWriting = FALSE
  /\ inProgress = {}
  /\ settled = <<>>

\* no web client is part of the run
NoWebClient ==
  /\ app = <<>>
  /\ pending = {}

Requests == 1..NumReq

\* The table is modelled over the keys of the passwords that the clients of
\* the run hold.
SpaceIds == DOMAIN db

\* What the client of request r may send.  A client marked wellFormed sends
\* only what the handler's input checks accept; any other client sends any
\* of the inputs.

\* req.headers['x-password']: <<>> when the header is missing, else <<value>>
PasswordHeaders(r) ==
  {h \in {<<>>, << <<>> >>, req[r].password} :
     req[r].wellFormed => (h # <<>> /\ h[1] # <<>>)}

\* req.body.item
ItemInputsOf(r) ==
  {item \in ItemInputs : req[r].wellFormed => validateItem(item).valid}

\* req.params.index
IndexParamsOf(r) ==
  {param \in IndexParams :
     req[r].wellFormed
     => (/\ \A i \in 1..Len(param) : IsDigit(param[i])
         /\ ~parseInt(param).nan /\ parseInt(param).val >= 0)}

\* req.body.index
IndexInputsOf(r) ==
  {index \in IndexInputs :
     req[r].wellFormed
     => (index.type = "number" /\ index.num >= 0 /\ index.den = 1)}

EmptyData == [items |-> <<>>, lastPicked |-> null]

IdleReq ==
  [op |-> "none", pc |-> "idle", wellFormed |-> TRUE, password |-> <<>>,
   header |-> <<>>,
   spaceId |-> <<>>,
   value |-> <<>>, index |-> 0,
   stage |-> 0, data |-> EmptyData, picked |-> null,
   status |-> 0, error |-> "", resItems |-> <<>>, deletedItem |-> null,
   resPicked |-> null, spliced |-> null, pred |-> {}, thrown |-> "",
   raw |-> JsonUndefined, result |-> null, sent |-> <<>>, client |-> 0]

\* max_items_limit with the bound off by one
max_items_limit_off_by_one(data) == Len(data.items) <= MaxItems + 1

\* CONSTRAINT max_items_limit of schema.sql
max_items_limit(data) == Len(data.items) <= MaxItems

\* Tables the program can have built before the run begins: every space is
\* missing, or holds distinct items within the capacity and a last pick that
\* is absent or names one of them.
PickAt(items, i, spaceId) ==
  [item |-> items[i + 1], index |-> i,
   space |-> SubSeq(spaceId, 1, SpaceFragmentLength)]

InitialRows(spaceId) ==
  {<<>>} \cup
  UNION {
    LET items == [i \in 1..n |-> <<Letters[i]>>] IN
      {<<[items |-> items, lastPicked |-> null]>>} \cup
      {<<[items |-> items, lastPicked |-> <<PickAt(items, i, spaceId)>>]>> :
         i \in 0..(n - 1)}
    : n \in 0..MaxItems}

\* the tables over the keys of a set of passwords
Tables(passwords) ==
  LET keys == {hashPassword(p) : p \in passwords} IN
    {f \in [keys -> UNION {InitialRows(k) : k \in keys}] :
       \A k \in keys : f[k] \in InitialRows(k)}

\* The run begins on a table with no request in flight; held[r] is the
\* password of the client that will send request r.
StartOn(table, held, wellFormed) ==
  /\ db = table
  /\ lock = [k \in DOMAIN table |-> 0]
  /\ req = [r \in Requests |-> [IdleReq EXCEPT !.password = <<held[r]>>,
                                               !.wellFormed = wellFormed]]
  /\ db0 = table
  /\ dbUp = TRUE
  /\ NoFileServer
  /\ NoWebClient

\* Well-formed requests of clients that share one password.
Init ==
  \E table \in Tables({Password1}) :
    StartOn(table, [r \in Requests |-> Password1], TRUE)

\* Clients of two passwords: the last client holds the second password or
\* shares the first with the others.  The first key begins one item short
\* of the capacity with a pick of its first item, the second with no row.
InitKeys ==
  \E table \in Tables(AllPasswords) :
    \E last \in AllPasswords :
      LET first == table[hashPassword(Password1)]
          second == table[hashPassword(Password2)]
      IN /\ first # <<>>
         /\ Len(first[1].items) = MaxItems - 1
         /\ first[1].lastPicked # null
         /\ first[1].lastPicked[1].index = 0
         /\ second = <<>>
         /\ StartOn(table, [r \in Requests |->
                              IF r = NumReq THEN last ELSE Password1],
                    TRUE)

\* the tables of one key that begins with no row, or one item short of the
\* capacity with a pick of its first item
SmallTables ==
  {table \in Tables({Password1}) :
     LET rows == table[hashPassword(Password1)] IN
       rows # <<>>
       => /\ Len(rows[1].items) = MaxItems - 1
          /\ rows[1].lastPicked # null
          /\ rows[1].lastPicked[1].index = 0}

\* Requests of any shape from clients that share one password.
InitHttp ==
  \E table \in SmallTables :
    StartOn(table, [r \in Requests |-> Password1], FALSE)

\* Well-formed requests of clients that share one password, on a small table.
InitFail ==
  \E table \in SmallTables :
    StartOn(table, [r \in Requests |-> Password1], TRUE)

\* ---------------------------------------------------------------- responses
Respond(q, status, error) ==
  [q EXCEPT !.pc = "done", !.status = status, !.error = error]

\* the catch block of each route handler
ErrorOf(op) ==
  CASE op = "add" -> "Failed to save item"
    [] op = "remove" -> "Failed to delete item"
    [] op = "recordPick" -> "Failed to save picked item"
    [] OTHER -> "Internal server error"

\* a catch block that answers with the defaults instead of the error
Caught_defaults(q) == Respond(q, 200, "")

Caught(q) == Respond(q, 500, ErrorOf(q.op))

\* a datastore function throws: `thrown` names the statement that failed or
\* the message of the Error that the function raised
Throw(q, what) == [q EXCEPT !.thrown = what]

\* getClient of db.js: the handler checks a client out of the pool
getClient(q) == [q EXCEPT !.client = @ + 1]

\* client.release(): the handler gives a client back to the pool
release(q) == [q EXCEPT !.client = @ - 1]

\* query of db.js runs one statement on a client that it checks out and
\* releases in its finally block, whether the statement fails or not
query(q) == release(getClient(q))

\* the response a finished handler sent
Response(q) ==
  [status |-> q.status, error |-> q.error, items |-> q.resItems,
   deleted |-> IF q.op = "remove" /\ q.status = 200 THEN q.deletedItem ELSE null,
   lastPicked |-> q.resPicked]

\* validatePassword that sends every password to one space
validatePassword_one_space(header) ==
  IF header = <<>> \/ header[1] = <<>> THEN <<>> ELSE hashPassword(Password1)

\* validatePassword middleware: the space id, or <<>> when it answers 400
validatePassword(header) ==
  IF header = <<>> \/ header[1] = <<>> THEN <<>> ELSE hashPassword(header[1])

\* PasswordRequired with the status of a failed authentication
PasswordRequired_unauthorized(q) == Respond(q, 401, "Password required")

PasswordRequired(q) == Respond(q, 400, "Password required")

\* A request slot is taken in order, which names each run once.
CanStart(r) ==
  /\ req[r].pc = "idle"
  /\ \A s \in Requests : s < r => req[s].pc # "idle"

Begin(r, op, header) ==
  [IdleReq EXCEPT !.op = op,
                  !.wellFormed = req[r].wellFormed,
                  !.password = req[r].password,
                  !.header = header,
                  !.pred = {s \in Requests : req[s].pc = "done"}]

\* includes that looks at the first element only
includes_first_only(items, value) == items # <<>> /\ items[1] = value

\* Array.prototype.includes
includes(items, value) == \E i \in 1..Len(items) : items[i] = value

\* doesNotMatch that looks at the index only
doesNotMatch_index_only(items, index, value) == index >= Len(items)

\* POST /api/picked: "Verify the item exists at the specified index"
doesNotMatch(items, index, value) ==
  index >= Len(items) \/ items[index + 1] # value

\* What a handler does with the space that getSpace returned, up to its next
\* await or its response.
AfterGetSpace(q, space) ==
  LET items == space.items IN
  CASE q.op = "list" ->
         [Respond(q, 200, "") EXCEPT !.resItems = items]
    [] q.op = "getPicked" ->
         [Respond(q, 200, "") EXCEPT !.resPicked = space.lastPicked]
    [] q.op = "add" /\ q.stage = 1 ->
         IF includes(items, q.value)
           THEN Respond(q, 409, "Item already exists")
         ELSE IF Len(items) >= MaxItems
           THEN Respond(q, 400, "Maximum number of items (1000) reached")
         ELSE [q EXCEPT !.pc = "addItem"]
    [] q.op = "remove" /\ q.stage = 1 ->
         IF q.index >= Len(items)
           THEN Respond(q, 404, "Item not found at specified index")
           ELSE [q EXCEPT !.pc = "removeItem",
                          !.deletedItem = <<items[q.index + 1]>>]
    [] q.op \in {"add", "remove"} /\ q.stage = 2 ->
         [Respond(q, 200, "") EXCEPT !.resItems = items]
    [] q.op = "recordPick" ->
         IF doesNotMatch(items, q.index, q.value)
           THEN Respond(q, 400, "Item does not match the specified index")
           ELSE [q EXCEPT !.pc = "updateLastPicked",
                          !.picked = <<[item |-> q.value, index |-> q.index,
                                        space |-> SubSeq(q.spaceId, 1,
                                                   SpaceFragmentLength)]>>]

\* ------------------------------------------------------------ route handlers
\* getSpace that returns the empty space for a missing row without storing it
getSpace_no_insert(q, spaceId) ==
  LET p == [q EXCEPT !.spaceId = spaceId, !.stage = 1]
      rows == db[spaceId]
  IN AfterGetSpace(p, IF Len(rows) > 0 THEN rows[1] ELSE EmptyData)

\* the SELECT of getSpace: a row found is returned to the handler; otherwise
\* the INSERT follows as a second statement.  A SELECT that fails ends the
\* handler in its catch block, and its locals are dropped.
getSpace(q, spaceId) ==
  LET p == [q EXCEPT !.spaceId = spaceId, !.stage = 1]
      rows == db[spaceId]
  IN IF ~dbUp
       THEN Caught(Throw(query([p EXCEPT !.value = <<>>, !.index = 0,
                                         !.sent = <<>>]),
                         "SELECT"))
     ELSE IF Len(rows) > 0
       THEN AfterGetSpace(query(p), rows[1])
       ELSE [query(p) EXCEPT !.pc = "getSpaceInsert"]

\* Each route action is the handler from its call through the SELECT of its
\* first getSpace: the middleware, the input checks, the early returns, and
\* what the handler does with a row found.  Nothing the handler does before
\* that SELECT reads or writes shared state.

\* GET /api/items
GetItems(r) ==
  /\ CanStart(r)
  /\ \E header \in PasswordHeaders(r) :
       LET q == Begin(r, "list", header)
           spaceId == validatePassword(header)
       IN req' = [req EXCEPT ![r] =
            IF spaceId = <<>> THEN PasswordRequired(q) ELSE getSpace(q, spaceId)]
  /\ UNCHANGED <<db, lock, db0, dbUp, fileVars, webVars>>

\* POST /api/items
PostItems(r) ==
  /\ CanStart(r)
  /\ \E header \in PasswordHeaders(r) :
       LET q == Begin(r, "add", header)
           spaceId == validatePassword(header)
       IN IF spaceId = <<>>
            THEN req' = [req EXCEPT ![r] = PasswordRequired(q)]
            ELSE \E item \in ItemInputsOf(r) :
              LET validation == validateItem(item) IN
                req' = [req EXCEPT ![r] =
                  IF ~validation.valid THEN Respond(q, 400, validation.error)
                  ELSE getSpace([q EXCEPT !.value = validation.value], spaceId)]
  /\ UNCHANGED <<db, lock, db0, dbUp, fileVars, webVars>>

\* DELETE /api/items/:index that fetches the space before it checks the index
DeleteItem_store_first(r) ==
  /\ CanStart(r)
  /\ \E header \in PasswordHeaders(r) :
       LET q == Begin(r, "remove", header)
           spaceId == validatePassword(header)
       IN IF spaceId = <<>>
            THEN req' = [req EXCEPT ![r] = PasswordRequired(q)]
            ELSE \E param \in IndexParamsOf(r) :
              LET index == parseInt(param)
                  p == [q EXCEPT !.sent = <<param>>]
              IN
                req' = [req EXCEPT ![r] =
                  IF index.nan \/ index.val < 0
                    THEN Respond([p EXCEPT !.spaceId = spaceId, !.stage = 1],
                           400, "Invalid index: must be a non-negative integer")
                    ELSE getSpace([p EXCEPT !.index = index.val], spaceId)]
  /\ UNCHANGED <<db, lock, db0, dbUp, fileVars, webVars>>

\* DELETE /api/items/:index
DeleteItem(r) ==
  /\ CanStart(r)
  /\ \E header \in PasswordHeaders(r) :
       LET q == Begin(r, "remove", header)
           spaceId == validatePassword(header)
       IN IF spaceId = <<>>
            THEN req' = [req EXCEPT ![r] = PasswordRequired(q)]
            ELSE \E param \in IndexParamsOf(r) :
              LET index == parseInt(param)
                  p == [q EXCEPT !.sent = <<param>>]
              IN
                req' = [req EXCEPT ![r] =
                  IF index.nan \/ index.val < 0
                    THEN Respond(p, 400,
                           "Invalid index: must be a non-negative integer")
                    ELSE getSpace([p EXCEPT !.index = index.val], spaceId)]
  /\ UNCHANGED <<db, lock, db0, dbUp, fileVars, webVars>>

\* GET /api/picked
GetPicked(r) ==
  /\ CanStart(r)
  /\ \E header \in PasswordHeaders(r) :
       LET q == Begin(r, "getPicked", header)
           spaceId == validatePassword(header)
       IN req' = [req EXCEPT ![r] =
            IF spaceId = <<>> THEN PasswordRequired(q) ELSE getSpace(q, spaceId)]
  /\ UNCHANGED <<db, lock, db0, dbUp, fileVars, webVars>>

\* POST /api/picked
PostPicked(r) ==
  /\ CanStart(r)
  /\ \E header \in PasswordHeaders(r) :
       LET q == Begin(r, "recordPick", header)
           spaceId == validatePassword(header)
       IN IF spaceId = <<>>
            THEN req' = [req EXCEPT ![r] = PasswordRequired(q)]
            ELSE \E index \in IndexInputsOf(r) :
              IF index.type # "number" \/ index.num < 0 \/ index.den # 1
                THEN req' = [req EXCEPT ![r] =
                       Respond([q EXCEPT !.sent = <<index>>], 400, "Invalid index")]
                ELSE \E item \in ItemInputsOf(r) :
                  LET validation == validateItem(item)
                      p == [q EXCEPT !.sent = <<index>>]
                  IN
                    req' = [req EXCEPT ![r] =
                      IF ~validation.valid
                        THEN Respond(p, 400, validation.error)
                        ELSE getSpace([p EXCEPT !.value = validation.value,
                                                !.index = index.num], spaceId)]
  /\ UNCHANGED <<db, lock, db0, dbUp, fileVars, webVars>>

\* ---------------------------------------------------------------- datastore
\* getSpace as called again after addItem or removeItem ("Get updated space
\* data"): the SELECT
GetSpaceSelect(r) ==
  LET q == req[r]
      rows == db[q.spaceId]
  IN /\ q.pc = "getSpace"
     /\ req' = [req EXCEPT ![r] =
          IF ~dbUp THEN Caught(Throw(query(q), "SELECT"))
          ELSE IF Len(rows) > 0
            THEN AfterGetSpace(query(q), rows[1])
            ELSE [query(q) EXCEPT !.pc = "getSpaceInsert"]]
     /\ UNCHANGED <<db, lock, db0, dbUp, fileVars, webVars>>

\* an INSERT that replaces a row that has appeared since the SELECT
GetSpaceInsert_replaces(r) ==
  LET q == req[r]
      rows == db[q.spaceId]
  IN /\ q.pc = "getSpaceInsert"
     /\ dbUp => lock[q.spaceId] = 0
     /\ IF ~dbUp
          THEN /\ req' = [req EXCEPT ![r] = Caught(Throw(query(q), "INSERT"))]
               /\ UNCHANGED db
          ELSE /\ db' = [db EXCEPT ![q.spaceId] = <<EmptyData>>]
               /\ req' = [req EXCEPT ![r] = AfterGetSpace(query(q), EmptyData)]
     /\ UNCHANGED <<lock, db0, dbUp, fileVars, webVars>>

\* getSpace: the INSERT of the new space.  The primary key rejects it when
\* the row has appeared since the SELECT; the error is rethrown.
GetSpaceInsert(r) ==
  LET q == req[r]
      rows == db[q.spaceId]
  IN /\ q.pc = "getSpaceInsert"
     /\ dbUp => lock[q.spaceId] = 0
     /\ IF ~dbUp \/ Len(rows) > 0
          THEN /\ req' = [req EXCEPT ![r] = Caught(Throw(query(q), "INSERT"))]
               /\ UNCHANGED db
          ELSE /\ db' = [db EXCEPT ![q.spaceId] = <<EmptyData>>]
               /\ req' = [req EXCEPT ![r] = AfterGetSpace(query(q), EmptyData)]
     /\ UNCHANGED <<lock, db0, dbUp, fileVars, webVars>>

\* addItem that puts the new item in front of the list
AddItemUpdate_unshift(r) ==
  LET q == req[r]
      rows == db[q.spaceId]
      data == IF Len(rows) = 0 THEN EmptyData ELSE rows[1]
      pushed == [data EXCEPT !.items = <<q.value>> \o data.items]
  IN /\ q.pc = "addItem"
     /\ dbUp => lock[q.spaceId] = 0
     /\ IF ~dbUp
          THEN /\ req' = [req EXCEPT ![r] =
                    Caught(release(Throw(getClient(q), "BEGIN")))]
               /\ UNCHANGED lock
          ELSE /\ lock' = [lock EXCEPT ![q.spaceId] = r]
               /\ req' = [req EXCEPT ![r] =
                    IF max_items_limit(pushed)
                      THEN [getClient(q) EXCEPT !.pc = "addItemCommit",
                                                !.data = pushed]
                      ELSE [Throw(getClient(q), "UPDATE") EXCEPT
                              !.pc = "addItemRollback", !.data = pushed]]
     /\ UNCHANGED <<db, db0, dbUp, fileVars, webVars>>

\* addItem: getClient, BEGIN, SELECT ... FOR UPDATE (waits for the row
\* lock), the push onto the selected data and the UPDATE, which the table's
\* constraints check.  The transaction holds the row lock from here on, and
\* its UPDATE is not visible to others before COMMIT.  With the database
\* down the first statement fails, nothing is locked and the error is
\* rethrown.
AddItemUpdate(r) ==
  LET q == req[r]
      rows == db[q.spaceId]
      data == IF Len(rows) = 0 THEN EmptyData ELSE rows[1]
      pushed == [data EXCEPT !.items = Append(data.items, q.value)]
  IN /\ q.pc = "addItem"
     /\ dbUp => lock[q.spaceId] = 0
     /\ IF ~dbUp
          THEN /\ req' = [req EXCEPT ![r] =
                    Caught(release(Throw(getClient(q), "BEGIN")))]
               /\ UNCHANGED lock
          ELSE /\ lock' = [lock EXCEPT ![q.spaceId] = r]
               /\ req' = [req EXCEPT ![r] =
                    IF max_items_limit(pushed)
                      THEN [getClient(q) EXCEPT !.pc = "addItemCommit",
                                                !.data = pushed]
                      ELSE [Throw(getClient(q), "UPDATE") EXCEPT
                              !.pc = "addItemRollback", !.data = pushed]]
     /\ UNCHANGED <<db, db0, dbUp, fileVars, webVars>>

\* a COMMIT that publishes the longer list without the stored lastPicked
AddItemCommit_drops_pick(r) ==
  LET q == req[r] IN
     /\ q.pc = "addItemCommit"
     /\ IF dbUp
          THEN /\ db' = [db EXCEPT ![q.spaceId] =
                            <<[q.data EXCEPT !.lastPicked = null]>>]
               /\ lock' = [lock EXCEPT ![q.spaceId] = 0]
               /\ req' = [req EXCEPT ![r] =
                    [release(q) EXCEPT !.pc = "getSpace", !.stage = 2,
                                       !.data = EmptyData]]
          ELSE /\ req' = [req EXCEPT ![r] =
                    [Throw(q, "COMMIT") EXCEPT !.pc = "addItemRollback"]]
               /\ UNCHANGED <<db, lock>>
     /\ UNCHANGED <<db0, dbUp, fileVars, webVars>>

\* addItem: COMMIT publishes the row and frees the lock; the handler goes on
\* to its second getSpace.  A COMMIT that fails leaves the row as it was and
\* takes the function to its catch block.
AddItemCommit(r) ==
  LET q == req[r] IN
     /\ q.pc = "addItemCommit"
     /\ IF dbUp
          THEN /\ db' = [db EXCEPT ![q.spaceId] = <<q.data>>]
               /\ lock' = [lock EXCEPT ![q.spaceId] = 0]
               /\ req' = [req EXCEPT ![r] =
                    [release(q) EXCEPT !.pc = "getSpace", !.stage = 2,
                                       !.data = EmptyData]]
          ELSE /\ req' = [req EXCEPT ![r] =
                    [Throw(q, "COMMIT") EXCEPT !.pc = "addItemRollback"]]
               /\ UNCHANGED <<db, lock>>
     /\ UNCHANGED <<db0, dbUp, fileVars, webVars>>

\* addItem that stores its data when it rolls back
AddItemRollback_keeps_update(r) ==
  LET q == req[r] IN
     /\ q.pc = "addItemRollback"
     /\ db' = [db EXCEPT ![q.spaceId] = <<q.data>>]
     /\ lock' = [lock EXCEPT ![q.spaceId] = 0]
     /\ req' = [req EXCEPT ![r] =
          Caught(release([q EXCEPT !.data = EmptyData]))]
     /\ UNCHANGED <<db0, dbUp, fileVars, webVars>>

\* addItem: ROLLBACK in the catch block, then the error is rethrown.  The
\* transaction ends without its writes and the row lock is free, whether
\* the ROLLBACK is answered or the connection is lost.
AddItemRollback(r) ==
  LET q == req[r] IN
     /\ q.pc = "addItemRollback"
     /\ lock' = [lock EXCEPT ![q.spaceId] = 0]
     /\ req' = [req EXCEPT ![r] =
          Caught(release([q EXCEPT !.data = EmptyData]))]
     /\ UNCHANGED <<db, db0, dbUp, fileVars, webVars>>

\* a removal that takes the last element whatever the index
splice_pop(items, index) == SubSeq(items, 1, Len(items) - 1)

\* Array.prototype.splice(index, 1) on a zero-based index
splice(items, index) ==
  SubSeq(items, 1, index) \o SubSeq(items, index + 2, Len(items))

\* clearedLastPicked that keeps a pick whose index is the removed one
clearedLastPicked_strict(data, index) ==
  IF data.lastPicked # null /\ data.lastPicked[1].index > index
    THEN null ELSE data.lastPicked

\* removeItem: lastPicked after a removal at index
clearedLastPicked(data, index) ==
  IF data.lastPicked # null /\ data.lastPicked[1].index >= index
    THEN null ELSE data.lastPicked

\* removeItem that clears lastPicked whatever the removed index
RemoveItemUpdate_clears_pick(r) ==
  LET q == req[r]
      rows == db[q.spaceId]
  IN /\ q.pc = "removeItem"
     /\ dbUp => lock[q.spaceId] = 0
     /\ IF ~dbUp
          THEN /\ req' = [req EXCEPT ![r] =
                    Caught(release(Throw(getClient(q), "BEGIN")))]
               /\ UNCHANGED lock
          ELSE /\ lock' = [lock EXCEPT ![q.spaceId] = r]
               /\ req' = [req EXCEPT ![r] =
                    IF Len(rows) = 0
                      THEN [Throw(getClient(q), "Space not found") EXCEPT
                              !.pc = "removeItemRollback"]
                    ELSE LET data == rows[1] IN
                      IF q.index >= 0 /\ q.index < Len(data.items)
                        THEN [getClient(q) EXCEPT
                                !.pc = "removeItemCommit",
                                !.spliced = <<data.items[q.index + 1]>>,
                                !.data = [items |-> splice(data.items, q.index),
                                          lastPicked |-> null]]
                        ELSE [Throw(getClient(q), "Invalid item index") EXCEPT
                                !.pc = "removeItemRollback"]]
     /\ UNCHANGED <<db, db0, dbUp, fileVars, webVars>>

\* removeItem: getClient, BEGIN, SELECT ... FOR UPDATE (waits for the row
\* lock), the change made to the selected data and the UPDATE; a missing row
\* or a bad index throws.  With the database down the first statement fails.
RemoveItemUpdate(r) ==
  LET q == req[r]
      rows == db[q.spaceId]
  IN /\ q.pc = "removeItem"
     /\ dbUp => lock[q.spaceId] = 0
     /\ IF ~dbUp
          THEN /\ req' = [req EXCEPT ![r] =
                    Caught(release(Throw(getClient(q), "BEGIN")))]
               /\ UNCHANGED lock
          ELSE /\ lock' = [lock EXCEPT ![q.spaceId] = r]
               /\ req' = [req EXCEPT ![r] =
                    IF Len(rows) = 0
                      THEN [Throw(getClient(q), "Space not found") EXCEPT
                              !.pc = "removeItemRollback"]
                    ELSE LET data == rows[1] IN
                      IF q.index >= 0 /\ q.index < Len(data.items)
                        THEN [getClient(q) EXCEPT
                                !.pc = "removeItemCommit",
                                !.spliced = <<data.items[q.index + 1]>>,
                                !.data = [items |-> splice(data.items, q.index),
                                          lastPicked |->
                                            clearedLastPicked(data, q.index)]]
                        ELSE [Throw(getClient(q), "Invalid item index") EXCEPT
                                !.pc = "removeItemRollback"]]
     /\ UNCHANGED <<db, db0, dbUp, fileVars, webVars>>

\* a COMMIT that publishes the shortened list and leaves lastPicked stored
RemoveItemCommit_items_only(r) ==
  LET q == req[r] IN
     /\ q.pc = "removeItemCommit"
     /\ IF dbUp
          THEN /\ db' = [db EXCEPT ![q.spaceId] =
                            <<[@[1] EXCEPT !.items = q.data.items]>>]
               /\ lock' = [lock EXCEPT ![q.spaceId] = 0]
               /\ req' = [req EXCEPT ![r] =
                    [release(q) EXCEPT !.pc = "getSpace", !.stage = 2,
                                       !.data = EmptyData]]
          ELSE /\ req' = [req EXCEPT ![r] =
                    [Throw(q, "COMMIT") EXCEPT !.pc = "removeItemRollback"]]
               /\ UNCHANGED <<db, lock>>
     /\ UNCHANGED <<db0, dbUp, fileVars, webVars>>

\* removeItem: COMMIT, then the handler's second getSpace; a COMMIT that
\* fails takes the function to its catch block.
RemoveItemCommit(r) ==
  LET q == req[r] IN
     /\ q.pc = "removeItemCommit"
     /\ IF dbUp
          THEN /\ db' = [db EXCEPT ![q.spaceId] = <<q.data>>]
               /\ lock' = [lock EXCEPT ![q.spaceId] = 0]
               /\ req' = [req EXCEPT ![r] =
                    [release(q) EXCEPT !.pc = "getSpace", !.stage = 2,
                                       !.data = EmptyData]]
          ELSE /\ req' = [req EXCEPT ![r] =
                    [Throw(q, "COMMIT") EXCEPT !.pc = "removeItemRollback"]]
               /\ UNCHANGED <<db, lock>>
     /\ UNCHANGED <<db0, dbUp, fileVars, webVars>>

\* removeItem whose catch block rethrows without the release of finally
RemoveItemRollback_keeps_client(r) ==
  LET q == req[r] IN
     /\ q.pc = "removeItemRollback"
     /\ lock' = [lock EXCEPT ![q.spaceId] = 0]
     /\ req' = [req EXCEPT ![r] =
          Caught([q EXCEPT !.data = EmptyData])]
     /\ UNCHANGED <<db, db0, dbUp, fileVars, webVars>>

\* removeItem: ROLLBACK in the catch block, then the error is rethrown.
RemoveItemRollback(r) ==
  LET q == req[r] IN
     /\ q.pc = "removeItemRollback"
     /\ lock' = [lock EXCEPT ![q.spaceId] = 0]
     /\ req' = [req EXCEPT ![r] =
          Caught(release([q EXCEPT !.data = EmptyData]))]
     /\ UNCHANGED <<db, db0, dbUp, fileVars, webVars>>

\* updateLastPicked that sets the pick only when none is stored
UpdateLastPicked_keeps_earlier(r) ==
  LET q == req[r]
      rows == db[q.spaceId]
  IN /\ q.pc = "updateLastPicked"
     /\ dbUp => lock[q.spaceId] = 0
     /\ IF ~dbUp \/ Len(rows) = 0
          THEN /\ req' = [req EXCEPT ![r] =
                    Caught([Throw(query(q), IF dbUp THEN "Space not found"
                                             ELSE "UPDATE")
                              EXCEPT !.picked = null])]
               /\ UNCHANGED db
          ELSE /\ db' = [db EXCEPT ![q.spaceId] =
                    <<[rows[1] EXCEPT !.lastPicked =
                                         IF @ = null THEN q.picked ELSE @]>>]
               /\ req' = [req EXCEPT ![r] =
                    [Respond(query(q), 200, "") EXCEPT !.resPicked = q.picked,
                                                !.picked = null]]
     /\ UNCHANGED <<lock, db0, dbUp, fileVars, webVars>>

\* updateLastPicked: one UPDATE that sets data.lastPicked with jsonb_set on
\* the row as it stands when the statement gets the row lock.
UpdateLastPicked(r) ==
  LET q == req[r]
      rows == db[q.spaceId]
  IN /\ q.pc = "updateLastPicked"
     /\ dbUp => lock[q.spaceId] = 0
     /\ IF ~dbUp \/ Len(rows) = 0
          THEN /\ req' = [req EXCEPT ![r] =
                    Caught([Throw(query(q), IF dbUp THEN "Space not found"
                                             ELSE "UPDATE")
                              EXCEPT !.picked = null])]
               /\ UNCHANGED db
          ELSE /\ db' = [db EXCEPT ![q.spaceId] =
                    <<[rows[1] EXCEPT !.lastPicked = q.picked]>>]
               /\ req' = [req EXCEPT ![r] =
                    [Respond(query(q), 200, "") EXCEPT !.resPicked = q.picked,
                                                !.picked = null]]
     /\ UNCHANGED <<lock, db0, dbUp, fileVars, webVars>>

\* The database, or the connection to it, fails while requests are still to
\* be answered; it stays down for the rest of the run.
DatabaseFails ==
  /\ dbUp
  /\ \E r \in Requests : req[r].pc # "done"
  /\ dbUp' = FALSE
  /\ UNCHANGED <<db, lock, req, db0, fileVars, webVars>>

Next ==
  \E r \in Requests :
    \/ GetItems(r)
    \/ PostItems(r)
    \/ DeleteItem(r)
    \/ GetPicked(r)
    \/ PostPicked(r)
    \/ GetSpaceSelect(r)
    \/ GetSpaceInsert(r)
    \/ AddItemUpdate(r)
    \/ AddItemCommit(r)
    \/ AddItemRollback(r)
    \/ RemoveItemUpdate(r)
    \/ RemoveItemCommit(r)
    \/ RemoveItemRollback(r)
    \/ UpdateLastPicked(r)

Spec == Init /\ [][Next]_vars

\* the same handlers serving clients of two passwords
SpecKeys == InitKeys /\ [][Next]_vars

\* the same handlers serving requests of any shape
SpecHttp == InitHttp /\ [][Next]_vars

\* the handlers over a database that may fail at any moment
NextFail ==
  \/ Next
  \/ DatabaseFails

SpecFail == InitFail /\ [][NextFail]_vars

\* ------------------------------------------------- validateItem on its own
\* One caller holds a raw string (raw) and calls validateItem on it once;
\* result keeps what the call returned.
InitValidate ==
  /\ db = [k \in {hashPassword(Password1)} |-> <<>>]
  /\ lock = [k \in DOMAIN db |-> 0]
  /\ \E s \in RawStrings :
       req = [r \in Requests |->
                IF r = 1 THEN [IdleReq EXCEPT !.raw = JsonString(s)]
                         ELSE IdleReq]
  /\ db0 = db
  /\ dbUp = TRUE
  /\ NoFileServer
  /\ NoWebClient

CallValidateItem(r) ==
  /\ req[r].pc = "idle"
  /\ req[r].raw.type = "string"
  /\ req' = [req EXCEPT ![r] = [@ EXCEPT !.op = "validate", !.pc = "done",
                                         !.result = <<validateItem(req[r].raw)>>]]
  /\ UNCHANGED <<db, lock, db0, dbUp, fileVars, webVars>>

\* the caller hands the value of an accepted string to validateItem again
CallValidateItemAgain(r) ==
  /\ req[r].op = "validate"
  /\ Len(req[r].result) = 1
  /\ req[r].result[1].valid
  /\ req' = [req EXCEPT ![r].result =
                Append(@, validateItem(JsonString(req[r].result[1].value)))]
  /\ UNCHANGED <<db, lock, db0, dbUp, fileVars, webVars>>

NextValidate ==
  \E r \in Requests :
    \/ CallValidateItem(r)
    \/ CallValidateItemAgain(r)

SpecValidate == InitValidate /\ [][NextValidate]_vars

\* ------------------------------------------------------ the health probes
\* The probes of one client (one IP) within one window of the rate limiter,
\* sent without an Origin header, which the CORS check lets through, and
\* with or without an X-Password header.  The table holds anything and the
\* database is up or down.
InitHealth ==
  \E table \in Tables({Password1}) : \E up \in BOOLEAN :
    /\ db = table
    /\ lock = [k \in DOMAIN table |-> 0]
    /\ req = [r \in Requests |-> [IdleReq EXCEPT !.password = <<Password1>>,
                                                 !.wellFormed = FALSE]]
    /\ db0 = table
    /\ dbUp = up
    /\ NoFileServer
    /\ NoWebClient

\* what express-rate-limit has counted for the client when a request arrives
totalHits == Cardinality({s \in Requests : req[s].pc # "idle"}) + 1

\* app.use(globalLimiter): the request is answered 429 once the client is
\* over the limit, and is passed on otherwise
globalLimiter(q, passedOn) ==
  IF totalHits > RateLimitMaxRequests
    THEN Respond(q, 429,
                 "Too many requests from this IP, please try again later.")
    ELSE passedOn

\* res.json({ status: 'healthy', ... })
Healthy(q) == Respond(q, 200, "")

\* GET /health
GetHealth(r) ==
  /\ CanStart(r)
  /\ \E header \in {<<>>, req[r].password} :
       LET q == Begin(r, "health", header)
       IN req' = [req EXCEPT ![r] = globalLimiter(q, Healthy(q))]
  /\ UNCHANGED <<db, lock, db0, dbUp, fileVars, webVars>>

\* GET /healthz
GetHealthz(r) ==
  /\ CanStart(r)
  /\ \E header \in {<<>>, req[r].password} :
       LET q == Begin(r, "healthz", header)
       IN req' = [req EXCEPT ![r] = globalLimiter(q, Healthy(q))]
  /\ UNCHANGED <<db, lock, db0, dbUp, fileVars, webVars>>

NextHealth ==
  \E r \in Requests :
    \/ GetHealth(r)
    \/ GetHealthz(r)

SpecHealth == InitHealth /\ [][NextHealth]_vars

\* =================================================================== claims
\* ---- vocabulary of the claims
Done(r) == req[r].pc = "done"
Idle(r) == req[r].pc = "idle"

\* r passed the header and input checks and went to the store under key k
On(r, k) == req[r].spaceId = k

\* r and s overlapped: neither had answered when the other began
Overlap(r, s) == r \notin req[s].pred /\ s \notin req[r].pred

Mutations == {"add", "remove", "recordPick"}

Distinct(items) ==
  \A i, j \in 1..Len(items) : items[i] = items[j] => i = j

ItemSet(items) == {items[i] : i \in 1..Len(items)}

\* One request run alone against the rows of its key: its checks and its
\* write as one step.  The outcome is the rows left and the response.
Answer(status, error) ==
  [status |-> status, error |-> error, items |-> <<>>, deleted |-> null,
   lastPicked |-> null]

SeqApply(rows, q) ==
  LET space == IF rows = <<>> THEN EmptyData ELSE rows[1]
      items == space.items
      kept == <<space>>
  IN CASE q.op = "list" ->
            [rows |-> kept, response |-> [Answer(200, "") EXCEPT !.items = items]]
       [] q.op = "getPicked" ->
            [rows |-> kept,
             response |-> [Answer(200, "") EXCEPT !.lastPicked = space.lastPicked]]
       [] q.op = "add" ->
            IF q.value \in ItemSet(items)
              THEN [rows |-> kept, response |-> Answer(409, "Item already exists")]
            ELSE IF Len(items) >= MaxItems
              THEN [rows |-> kept,
                    response |-> Answer(400, "Maximum number of items (1000) reached")]
            ELSE [rows |-> <<[space EXCEPT !.items = Append(items, q.value)]>>,
                  response |-> [Answer(200, "") EXCEPT
                                  !.items = Append(items, q.value)]]
       [] q.op = "remove" ->
            IF q.index >= Len(items)
              THEN [rows |-> kept,
                    response |-> Answer(404, "Item not found at specified index")]
              ELSE LET left == [j \in 1..(Len(items) - 1) |->
                                  IF j <= q.index THEN items[j] ELSE items[j + 1]]
                   IN [rows |-> <<[items |-> left,
                                   lastPicked |->
                                     IF space.lastPicked # null
                                        /\ space.lastPicked[1].index >= q.index
                                       THEN null ELSE space.lastPicked]>>,
                       response |-> [Answer(200, "") EXCEPT
                                       !.items = left,
                                       !.deleted = <<items[q.index + 1]>>]]
       [] q.op = "recordPick" ->
            IF q.index >= Len(items) \/ items[q.index + 1] # q.value
              THEN [rows |-> kept,
                    response |-> Answer(400, "Item does not match the specified index")]
              ELSE LET pick == <<[item |-> q.value, index |-> q.index,
                                  space |-> SubSeq(q.spaceId, 1, SpaceFragmentLength)]>>
                   IN [rows |-> <<[space EXCEPT !.lastPicked = pick]>>,
                       response |-> [Answer(200, "") EXCEPT !.lastPicked = pick]]

Orders(S) ==
  {o \in [1..Cardinality(S) -> S] : \A i, j \in DOMAIN o : o[i] = o[j] => i = j}

RECURSIVE SerialRun(_, _, _, _)
\* running order[i..] one after the other from rows gives every request the
\* response it got and leaves the rows now stored under k
SerialRun(k, order, rows, i) ==
  IF i > Len(order)
    THEN rows = db[k]
    ELSE LET out == SeqApply(rows, req[order[i]]) IN
           /\ out.response = Response(req[order[i]])
           /\ SerialRun(k, order, out.rows, i + 1)

Serializable(k, S) == \E o \in Orders(S) : SerialRun(k, o, db0[k], 1)

\* C1: concurrent addItem requests with pairwise distinct valid texts on a
\* fresh key all succeed, and the final list holds exactly their texts.
C1_NoLostAdd ==
  \A k \in SpaceIds :
    (/\ db0[k] = <<>>
     /\ \A r \in Requests : Done(r) /\ On(r, k) /\ req[r].op = "add"
     /\ \A r, s \in Requests :
          r # s => Overlap(r, s) /\ req[r].value # req[s].value)
    => /\ \A r \in Requests : req[r].status = 200
       /\ Len(db[k]) = 1
       /\ Len(db[k][1].items) = NumReq
       /\ ItemSet(db[k][1].items) = {req[r].value : r \in Requests}

\* C2: no space's items list ever holds the same string twice.
C2_UniqueItems ==
  \A k \in SpaceIds : db[k] # <<>> => Distinct(db[k][1].items)

\* C3: every space holds at most the capacity (1000) of items at all times.
C3_AtMostMaxItems ==
  \A k \in SpaceIds : db[k] # <<>> => Len(db[k][1].items) <= MaxItems

\* C3 witness: a space began one short of the capacity and two adds of
\* different new texts raced on it: one was committed and filled the space,
\* the other passed the handler's capacity check and lost its UPDATE.
C3_Witness ==
  \E k \in SpaceIds : \E r, s \in Requests :
    /\ db0[k] # <<>> /\ Len(db0[k][1].items) = MaxItems - 1
    /\ On(r, k) /\ On(s, k) /\ req[r].op = "add" /\ req[s].op = "add"
    /\ req[r].value # req[s].value
    /\ req[r].status = 200 /\ req[s].status = 500
    /\ \A t \in Requests \ {r, s} : Idle(t)
    /\ Len(db[k][1].items) = MaxItems

\* C4: the add, remove and record-pick requests of a run leave the space
\* and get the responses that some one-at-a-time order of them would.
C4_Serializable ==
  \A k \in SpaceIds :
    LET S == {r \in Requests : On(r, k)} IN
      (/\ \A r \in Requests : Done(r)
       /\ \A r \in S : req[r].op \in Mutations)
      => Serializable(k, S)

\* C5: two overlapping first accesses to a never-seen key both complete
\* without error and leave one record: the empty space plus what the two
\* operations added.
C5_FirstAccessRace ==
  \A k \in SpaceIds : \A r, s \in Requests :
    (/\ r # s /\ db0[k] = <<>>
     /\ On(r, k) /\ On(s, k) /\ Done(r) /\ Done(s) /\ Overlap(r, s)
     /\ \A t \in Requests \ {r, s} : Idle(t))
    => /\ req[r].status # 500 /\ req[s].status # 500
       /\ Len(db[k]) = 1
       /\ Serializable(k, {r, s})

\* C6: the commit of a removeItem at an index at or below a present
\* lastPicked.index stores the list without that element and lastPicked absent.
C6_RemoveClearsPick ==
  [][\A r \in Requests :
       (req[r].pc = "removeItemCommit" /\ req'[r].pc # "removeItemCommit")
       => LET k == req[r].spaceId
              before == db[k][1]
          IN (before.lastPicked # null
              /\ before.lastPicked[1].index >= req[r].index)
             => /\ db'[k][1].lastPicked = null
                /\ Len(db'[k][1].items) = Len(before.items) - 1
                /\ \A j \in 1..Len(db'[k][1].items) :
                     db'[k][1].items[j] =
                       before.items[IF j <= req[r].index THEN j ELSE j + 1]
    ]_vars

\* C6 witness: alone, a removal at index 0 of a space whose pick was recorded
\* at index 1 has committed, leaving the tail of the list and no pick.
C6_Witness ==
  \E r \in Requests :
    LET k == req[r].spaceId IN
      /\ req[r].op = "remove" /\ req[r].index = 0 /\ req[r].status = 200
      /\ \A t \in Requests \ {r} : Idle(t)
      /\ db0[k] # <<>> /\ db0[k][1].lastPicked # null
      /\ db0[k][1].lastPicked[1].index = 1
      /\ db[k][1].items = Tail(db0[k][1].items)
      /\ db[k][1].lastPicked = null

\* C7: a present lastPicked always names an index inside the list and the
\* item stored at that index.
C7_PickConsistent ==
  \A k \in SpaceIds :
    (db[k] # <<>> /\ db[k][1].lastPicked # null)
    => LET p == db[k][1].lastPicked[1] IN
         /\ p.index < Len(db[k][1].items)
         /\ db[k][1].items[p.index + 1] = p.item

\* C8: a pick is written only while the list holds the validated item at the
\* given index.
C8_PickWrittenOnMatch ==
  [][\A r \in Requests :
       (req[r].pc = "updateLastPicked" /\ req'[r].status = 200)
       => LET items == db[req[r].spaceId][1].items IN
            /\ req[r].index < Len(items)
            /\ items[req[r].index + 1] = req[r].value
    ]_vars

\* C9: the removed value a successful removeItem returns is the element its
\* own transaction took out of the list.
C9_DeletedIsRemoved ==
  \A r \in Requests :
    (Done(r) /\ req[r].op = "remove" /\ req[r].status = 200)
    => Response(req[r]).deleted = req[r].spliced

\* C10: of two adds of the same validated text made one after the other and
\* alone, the first succeeds when the text is new and the list has room, and
\* then the second is answered 409 and leaves items and lastPicked as the
\* first left them.
C10_DuplicateRejected ==
  \A k \in SpaceIds : \A r, s \in Requests :
    (/\ r # s /\ On(r, k) /\ On(s, k)
     /\ req[r].op = "add" /\ req[s].op = "add" /\ req[r].value = req[s].value
     /\ r \in req[s].pred /\ Done(s)
     /\ \A t \in Requests \ {r, s} : Idle(t))
    => LET space0 == IF db0[k] = <<>> THEN EmptyData ELSE db0[k][1]
           fresh == /\ req[r].value \notin ItemSet(space0.items)
                    /\ Len(space0.items) < MaxItems
       IN /\ fresh => req[r].status = 200
          /\ req[r].status = 200
             => /\ req[s].status = 409
                /\ req[s].error = "Item already exists"
                /\ db[k] = <<[items |-> Append(space0.items, req[r].value),
                              lastPicked |-> space0.lastPicked]>>

\* C10 witness: the second of two such adds has been answered 409.
C10_Witness ==
  \E r, s \in Requests :
    /\ r # s /\ r \in req[s].pred
    /\ req[r].op = "add" /\ req[s].op = "add" /\ req[r].value = req[s].value
    /\ req[r].status = 200 /\ req[s].status = 409
    /\ \A t \in Requests \ {r, s} : Idle(t)

\* the capacity answer of POST /api/items
CapacityExceeded(q) ==
  q.status = 400 /\ q.error = "Maximum number of items (1000) reached"

\* An add of a new text that ran alone on a stored space: one short of the
\* capacity it succeeds and fills the space; at the capacity it is answered
\* with the capacity error and the space stays as it was.
CapacityBoundary ==
  \A k \in SpaceIds : \A r \in Requests :
    (/\ On(r, k) /\ Done(r) /\ req[r].op = "add"
     /\ \A t \in Requests \ {r} : Idle(t)
     /\ db0[k] # <<>> /\ req[r].value \notin ItemSet(db0[k][1].items))
    => LET before == db0[k][1].items IN
         /\ Len(before) = MaxItems - 1
            => /\ req[r].status = 200
               /\ db[k][1].items = Append(before, req[r].value)
         /\ Len(before) = MaxItems
            => CapacityExceeded(req[r]) /\ db[k] = db0[k]

\* C11: an add of a new text succeeds on a space one short of the capacity
\* and is answered with the capacity error on a full one, which it leaves
\* unchanged; and every add that the capacity turns away, by the handler's
\* check or by the table's max_items_limit, is answered with the capacity
\* error and no other.
C11_CapacityExceeded ==
  [][/\ CapacityBoundary'
     /\ \A r \in Requests :
          (/\ req[r].pc = "addItemRollback"
           /\ ~max_items_limit(req[r].data)
           /\ req'[r].pc = "done")
          => CapacityExceeded(req'[r])
    ]_vars

\* the space a key stands for: its row, or the empty space while it has none
SpaceOf(rows) == IF rows = <<>> THEN EmptyData ELSE rows[1]

\* the step in which r's handler gets the space that its first getSpace returns
Receives(r) ==
  /\ req[r].pc \in {"idle", "getSpaceInsert"}
  /\ req'[r].pc \notin {"idle", "getSpaceInsert"}
  /\ req'[r].stage = 1
  /\ req'[r].status # 500

\* C12: a recordPick whose index is outside the list its getSpace returned,
\* or whose validated item differs from the element at that index, is
\* answered 400 'Item does not match the specified index' and leaves the
\* space's items and lastPicked as they were.
C12_MismatchRejected ==
  [][\A r \in Requests :
       (Receives(r) /\ req'[r].op = "recordPick")
       => LET q == req'[r]
              space == SpaceOf(db'[q.spaceId])
          IN (\/ q.index >= Len(space.items)
              \/ space.items[q.index + 1] # q.value)
             => /\ q.pc = "done"
                /\ q.status = 400
                /\ q.error = "Item does not match the specified index"
                /\ SpaceOf(db'[q.spaceId]) = SpaceOf(db[q.spaceId])
                /\ \A k \in SpaceIds \ {q.spaceId} : db'[k] = db[k]
    ]_vars

\* C12 witness: alone, a recordPick of index 0 with a text other than the
\* first item of a space that holds a pick was answered with the mismatch
\* error, and the row is the one the run began with.
C12_Witness ==
  \E r \in Requests :
    LET q == req[r] k == q.spaceId IN
      /\ q.op = "recordPick" /\ Done(r) /\ q.index = 0
      /\ q.status = 400
      /\ q.error = "Item does not match the specified index"
      /\ \A t \in Requests \ {r} : Idle(t)
      /\ db0[k] # <<>> /\ db0[k][1].lastPicked # null
      /\ Len(db0[k][1].items) = MaxItems
      /\ q.value # db0[k][1].items[1]
      /\ db[k] = db0[k]

\* the answer of DELETE /api/items/:index for an index outside the list
NotFound(q) ==
  q.status = 404 /\ q.error = "Item not found at specified index"

\* C13: a removal whose index is outside the list as the list stands when
\* the removal executes is answered 404 'Item not found at specified index'
\* and changes nothing: both when the handler's check finds it and when the
\* removeItem transaction finds it, a concurrent removal having shrunk the
\* list in between.
C13_NotFound ==
  [][\A r \in Requests :
       /\ (Receives(r) /\ req'[r].op = "remove"
           /\ req'[r].index >= Len(SpaceOf(db'[req'[r].spaceId]).items))
          => /\ req'[r].pc = "done" /\ NotFound(req'[r])
             /\ SpaceOf(db'[req'[r].spaceId]) = SpaceOf(db[req'[r].spaceId])
       /\ (/\ req[r].pc = "removeItemRollback"
           /\ db[req[r].spaceId] # <<>>
           /\ req[r].index >= Len(db[req[r].spaceId][1].items)
           /\ req'[r].pc = "done")
          => NotFound(req'[r]) /\ db' = db
    ]_vars

\* C14: a request that ran alone on a key with no row - a list, an add, a
\* removal, a read of the pick or a recordPick - leaves a row stored under
\* the key and is answered as on the space with no items and no pick: the
\* row is that empty space, with the added text on it when the request was
\* an add.
C14_FirstAccessCreates ==
  \A k \in SpaceIds : \A r \in Requests :
    (/\ db0[k] = <<>> /\ On(r, k) /\ Done(r)
     /\ \A t \in Requests \ {r} : Idle(t))
    => LET q == req[r] IN
         /\ Len(db[k]) = 1
         /\ db[k][1].lastPicked = null
         /\ db[k][1].items = IF q.op = "add" THEN <<q.value>> ELSE <<>>
         /\ q.op = "list" => q.status = 200 /\ q.resItems = <<>>
         /\ q.op = "getPicked" => q.status = 200 /\ q.resPicked = null
         /\ q.op = "add" => q.status = 200 /\ q.resItems = <<q.value>>
         /\ q.op = "remove" => NotFound(q)
         /\ q.op = "recordPick"
            => /\ q.status = 400
               /\ q.error = "Item does not match the specified index"

\* C14 witness: alone, a read of the pick of a key with no row was answered
\* with no pick, and the key now has the empty space as its row.
C14_Witness ==
  \E k \in SpaceIds : \E r \in Requests :
    /\ db0[k] = <<>> /\ On(r, k) /\ Done(r)
    /\ req[r].op = "getPicked" /\ req[r].status = 200
    /\ req[r].resPicked = null
    /\ \A t \in Requests \ {r} : Idle(t)
    /\ db[k] = <<EmptyData>>

\* the key of the password that r's client holds
OwnKey(r) == hashPassword(req[r].password[1])

\* C15: a step of a request sent under one password leaves the row and the
\* row lock of every other password's key as they were, whatever requests
\* under other passwords are in flight; and the list or the pick that a read
\* answers is the one stored under its own key.
C15_KeyIsolation ==
  [][\A r \in Requests :
       req'[r] # req[r]
       => /\ \A k \in SpaceIds \ {OwnKey(r)} :
               db'[k] = db[k] /\ lock'[k] = lock[k]
          /\ (req'[r].op = "list" /\ req'[r].status = 200)
             => req'[r].resItems = SpaceOf(db'[OwnKey(r)]).items
          /\ (req'[r].op = "getPicked" /\ req'[r].status = 200)
             => req'[r].resPicked = SpaceOf(db'[OwnKey(r)]).lastPicked
    ]_vars

\* C15 witness: two overlapping requests under different passwords have both
\* changed the space of their own key: an add created and filled the first
\* key's row while a removal shortened the second key's list.
C15_Witness ==
  \E r, s \in Requests :
    /\ OwnKey(r) # OwnKey(s) /\ Overlap(r, s)
    /\ req[r].op = "add" /\ req[r].status = 200
    /\ req[s].op = "remove" /\ req[s].status = 200
    /\ db0[OwnKey(r)] = <<>>
    /\ db[OwnKey(r)] = <<[items |-> <<req[r].value>>, lastPicked |-> null]>>
    /\ Len(db[OwnKey(s)][1].items) = Len(db0[OwnKey(s)][1].items) - 1

\* C16: a request of any of the five /api operations sent with no X-Password
\* header, or with an empty one, is answered 400 'Password required' at
\* once: no space id is derived for it, it never calls the datastore, and a
\* run of such a request alone leaves the table as it was.
C16_PasswordRequired ==
  \A r \in Requests :
    (~Idle(r) /\ (req[r].header = <<>> \/ req[r].header[1] = <<>>))
    => /\ Done(r)
       /\ req[r].status = 400 /\ req[r].error = "Password required"
       /\ req[r].spaceId = <<>> /\ req[r].stage = 0
       /\ (\A t \in Requests \ {r} : Idle(t)) => db = db0 /\ lock = [k \in SpaceIds |-> 0]

\* C16 witness: a POST /api/picked sent with an empty X-Password header was
\* answered 400 'Password required' on a table that has no row.
C16_Witness ==
  \E r \in Requests :
    /\ req[r].op = "recordPick" /\ req[r].header = << <<>> >>
    /\ req[r].status = 400 /\ req[r].error = "Password required"
    /\ \A k \in SpaceIds : db[k] = <<>>

\* the answers of validateItem's failures and of the index shape checks
InputErrors ==
  {"Item must be a string", "Item cannot be empty",
   "Item cannot exceed 500 characters", "Invalid characters in item",
   "Invalid index", "Invalid index: must be a non-negative integer"}

\* C17: a request answered 400 for an invalid item or an invalid index shape
\* never called the datastore: it has read no space, and a run of such a
\* request alone leaves the table as it was, a key with no row still
\* without one.
C17_RejectedBeforeStore ==
  \A r \in Requests :
    (req[r].status = 400 /\ req[r].error \in InputErrors)
    => /\ Done(r)
       /\ req[r].stage = 0 /\ req[r].spaceId = <<>>
       /\ req[r].resItems = <<>> /\ req[r].resPicked = null
       /\ (\A t \in Requests \ {r} : Idle(t))
          => db = db0 /\ lock = [k \in SpaceIds |-> 0]

\* C17 witness: alone, a DELETE with a non-numeric index under a password
\* whose key has no row was answered 400, and the key still has no row.
C17_Witness ==
  \E r \in Requests :
    /\ req[r].op = "remove" /\ req[r].status = 400
    /\ req[r].error = "Invalid index: must be a non-negative integer"
    /\ req[r].header = req[r].password
    /\ \A t \in Requests \ {r} : Idle(t)
    /\ db[OwnKey(r)] = <<>>

\* positions of a handler inside addItem or removeItem: before the
\* transaction's first statement, before its COMMIT, and in its catch block
InTransaction == {"addItem", "addItemCommit", "removeItem", "removeItemCommit"}
InCatch == {"addItemRollback", "removeItemRollback"}

\* an add or a removal whose addItem or removeItem threw, run alone, has
\* left the space as the run began with it
AloneFailureRestores ==
  \A r \in Requests :
    (/\ Done(r) /\ req[r].op \in {"add", "remove"}
     /\ req[r].thrown \in {"BEGIN", "UPDATE", "COMMIT", "Invalid item index"}
     /\ \A t \in Requests \ {r} : Idle(t))
    => /\ SpaceOf(db[req[r].spaceId]) = SpaceOf(db0[req[r].spaceId])
       /\ lock[req[r].spaceId] = 0

\* C18: when a statement of addItem or removeItem fails - the first one, the
\* UPDATE that a constraint refuses, the COMMIT - or the function throws,
\* the step leaves the table as it was and takes the function to its catch
\* block; the ROLLBACK there leaves the table as it was, frees the row lock
\* and the error reaches the handler, which answers 500.  Run alone, the
\* failed call leaves the space equal to its value before the call.
C18_RollbackRestores ==
  [][/\ AloneFailureRestores'
     /\ \A r \in Requests :
          LET q == req[r]
              p == req'[r]
          IN /\ (q.pc \in InTransaction /\ q.thrown = "" /\ p.thrown # "")
                => /\ db' = db
                   /\ \/ p.pc \in InCatch /\ lock'[q.spaceId] = r
                      \/ /\ p.pc = "done" /\ p.status = 500
                         /\ p.error = ErrorOf(q.op) /\ lock' = lock
             /\ (q.pc \in InCatch /\ p # q)
                => /\ db' = db
                   /\ lock'[q.spaceId] = 0
                   /\ p.pc = "done" /\ p.status = 500
                   /\ p.error = ErrorOf(q.op)
    ]_vars

\* C18 witness: alone, an add of a new text to a stored space with room has
\* ended with 500 after its COMMIT failed; the row is the one the run began
\* with and the row lock is free.
C18_Witness ==
  \E r \in Requests :
    LET k == req[r].spaceId IN
      /\ req[r].op = "add" /\ Done(r) /\ req[r].thrown = "COMMIT"
      /\ req[r].status = 500 /\ req[r].error = "Failed to save item"
      /\ \A t \in Requests \ {r} : Idle(t)
      /\ db0[k] # <<>> /\ db[k] = db0[k] /\ lock[k] = 0
      /\ req[r].value \notin ItemSet(db[k][1].items)

\* C19: once a datastore call of a request has thrown - a statement failed
\* or the function raised an Error - the request sends no further statement
\* other than the ROLLBACK of its catch block, and it is answered 500 with
\* the error of its route and with no list and no pick in the response.
C19_FailureSurfaces ==
  \A r \in Requests :
    req[r].thrown # ""
    => /\ req[r].pc \in InCatch \cup {"done"}
       /\ Done(r)
          => /\ req[r].status = 500
             /\ req[r].error = ErrorOf(req[r].op)
             /\ Response(req[r]).items = <<>>
             /\ Response(req[r]).lastPicked = null
             /\ Response(req[r]).deleted = null

\* C19 witness: the SELECT of a GET /api/items on a stored space failed, and
\* the request was answered 500 'Internal server error' while the stored
\* list is not empty.
C19_Witness ==
  \E r \in Requests :
    /\ req[r].op = "list" /\ Done(r) /\ req[r].thrown = "SELECT"
    /\ req[r].status = 500 /\ req[r].error = "Internal server error"
    /\ db[req[r].spaceId] # <<>>
    /\ db[req[r].spaceId][1].items # <<>>

\* ---- the kinds of ValidationError, by the error text of validateItem
Empty == "Item cannot be empty"
TooLong == "Item cannot exceed 500 characters"
UnsafeContent == "Invalid characters in item"

DenyList ==
  {<<"<", "s", "c", "r", "i", "p", "t">>,
   <<"<", "i", "f", "r", "a", "m", "e">>,
   <<"j", "a", "v", "a", "s", "c", "r", "i", "p", "t", ":">>}

SameLetter(c, d) == c = d \/ (c \in DOMAIN LowerOf /\ LowerOf[c] = d)

\* s contains the lower-case text pat written in any letter case
ContainsAnyCase(s, pat) ==
  \E i \in 1..(Len(s) - Len(pat) + 1) :
    \A j \in 1..Len(pat) : SameLetter(s[i + j - 1], pat[j])

\* what the contract of the validator prescribes for the raw string s
Prescribed(s) ==
  LET t == trim(s) IN
    IF Len(t) = 0 THEN [valid |-> FALSE, error |-> Empty, value |-> <<>>]
    ELSE IF Len(t) > MaxItemLength
      THEN [valid |-> FALSE, error |-> TooLong, value |-> <<>>]
    ELSE IF \E pat \in DenyList : ContainsAnyCase(t, pat)
      THEN [valid |-> FALSE, error |-> UnsafeContent, value |-> <<>>]
    ELSE [valid |-> TRUE, error |-> "", value |-> t]

\* C20: for every raw string, validateItem fails with Empty when the trimmed
\* value has length zero; otherwise with TooLong when the trimmed length
\* exceeds 500; otherwise with UnsafeContent when the trimmed value contains
\* '<script', '<iframe' or 'javascript:' in any letter case; otherwise it
\* succeeds and returns the trimmed value.
C20_ValidateItem ==
  \A r \in Requests :
    req[r].result # null => req[r].result[1] = Prescribed(req[r].raw.str)

\* C21: validation is idempotent: when validateItem accepts a raw string
\* with value v, validateItem(v) succeeds too and returns v.
C21_Idempotent ==
  \A r \in Requests :
    Len(req[r].result) = 2
    => /\ req[r].result[2].valid
       /\ req[r].result[2].value = req[r].result[1].value

\* C21 witness: a string padded with whitespace on both sides was accepted,
\* and its shorter value was validated again.
C21_Witness ==
  \E r \in Requests :
    /\ Len(req[r].result) = 2
    /\ req[r].result[1].valid
    /\ Len(req[r].result[1].value) + 4 = Len(req[r].raw.str)

\* ---- the shape of a space id
HexDigits ==
  {"0", "1", "2", "3", "4", "5", "6", "7", "8", "9", "a", "b", "c", "d", "e", "f"}

IsHex(s) == \A i \in 1..Len(s) : s[i] \in HexDigits

\* CONSTRAINT valid_space_id of schema.sql
valid_space_id(spaceId) == Len(spaceId) = SpaceIdLength

PickOf(q) ==
  <<[item |-> q.value, index |-> q.index,
     space |-> SubSeq(q.spaceId, 1, SpaceFragmentLength)]>>

RecordsPick(r) ==
  /\ req[r].pc = "updateLastPicked"
  /\ Done(r)'
  /\ req'[r].status = 200

\* C23: a recordPick that succeeds stores as lastPicked the record of its
\* validated item, its index and the first 8 characters of the key, and
\* returns that record; a stored lastPicked changes only when another pick
\* is recorded or a removal at its index or below commits; and a getPicked
\* that succeeds returns the lastPicked stored when it reads.
C23_PickRecorded ==
  [][\A k \in SpaceIds :
       /\ \A r \in Requests :
            (RecordsPick(r) /\ On(r, k))
            => /\ SpaceOf(db'[k]).lastPicked = PickOf(req[r])
               /\ req'[r].resPicked = PickOf(req[r])
       /\ (/\ SpaceOf(db[k]).lastPicked # null
           /\ SpaceOf(db'[k]).lastPicked # SpaceOf(db[k]).lastPicked)
          => \E r \in Requests :
               /\ On(r, k)
               /\ \/ RecordsPick(r)
                  \/ /\ req[r].pc = "removeItemCommit"
                     /\ req'[r].pc = "getSpace"
                     /\ req[r].index <= SpaceOf(db[k]).lastPicked[1].index
       /\ \A r \in Requests :
            (/\ req'[r].op = "getPicked" /\ On(r, k)'
             /\ ~Done(r) /\ Done(r)' /\ req'[r].status = 200)
            => req'[r].resPicked = SpaceOf(db'[k]).lastPicked]_vars

\* C23 witness: a pick of a trimmed item was recorded where another pick
\* was stored, and a getPicked that began after it was answered returned the
\* record, which is still the stored one.
C23_Witness ==
  \E r, g \in Requests :
    /\ req[r].op = "recordPick" /\ Done(r) /\ req[r].status = 200
    /\ req[g].op = "getPicked" /\ Done(g) /\ req[g].status = 200
    /\ r \in req[g].pred
    /\ req[g].spaceId = req[r].spaceId
    /\ req[g].resPicked = req[r].resPicked
    /\ req[g].resPicked # null
    /\ req[g].resPicked # SpaceOf(db0[req[g].spaceId]).lastPicked
    /\ SpaceOf(db0[req[g].spaceId]).lastPicked # null
    /\ SpaceOf(db[req[g].spaceId]).lastPicked = req[g].resPicked

\* ---- the step in which r's addItem commits
CommitsAdd(r) == req[r].pc = "addItemCommit" /\ req'[r].pc = "getSpace"

\* C24: an addItem that commits leaves the stored list as it was with the
\* validated item added as its last element, every earlier element at its
\* index, and a list request that succeeds returns the stored list in its
\* order.
C24_AppendsLast ==
  [][\A k \in SpaceIds : \A r \in Requests :
       /\ (CommitsAdd(r) /\ On(r, k))
          => SpaceOf(db'[k]).items = Append(SpaceOf(db[k]).items, req[r].value)
       /\ (/\ req'[r].op = "list" /\ On(r, k)'
           /\ ~Done(r) /\ Done(r)' /\ req'[r].status = 200)
          => req'[r].resItems = SpaceOf(db'[k]).items]_vars

\* C24 witness: an item was added to a list that held another, and a list
\* request that began afterwards returned the earlier items followed by the
\* new one.
C24_Witness ==
  \E r, g \in Requests :
    /\ req[r].op = "add" /\ Done(r) /\ req[r].status = 200
    /\ req[g].op = "list" /\ Done(g) /\ req[g].status = 200
    /\ r \in req[g].pred
    /\ req[g].spaceId = req[r].spaceId
    /\ SpaceOf(db0[req[g].spaceId]).items # <<>>
    /\ req[g].resItems
         = Append(SpaceOf(db0[req[g].spaceId]).items, req[r].value)

\* C25: the list returned by an addItem that succeeded is the list as it
\* stood right after that call's own append: its last element is the added
\* item, also when other mutations of the same key run concurrently.
C25_ReturnsOwnAppend ==
  \A r \in Requests :
    (req[r].op = "add" /\ Done(r) /\ req[r].status = 200)
    => /\ req[r].resItems # <<>>
       /\ req[r].resItems[Len(req[r].resItems)] = req[r].value

\* C26: in every state of the server a probe, GET /health or GET /healthz,
\* sent without an X-Password header is answered with the healthy response,
\* and no probe reads or writes the table.
C26_ProbeAvailable ==
  /\ db = db0
  /\ \A r \in Requests :
       (req[r].op \in {"health", "healthz"} /\ Done(r) /\ req[r].header = <<>>)
       => /\ req[r].status = 200
          /\ req[r].error = ""
          /\ req[r].spaceId = <<>>

\* ---- index inputs that are non-negative integers
IsIntegerParam(param) ==
  param # <<>> /\ \A i \in 1..Len(param) : IsDigit(param[i])

IsIntegerInput(index) ==
  index.type = "number" /\ index.den = 1 /\ index.num >= 0

\* C27: a removal or a pick whose index input is not a non-negative integer
\* (negative, fractional or not a number) is rejected with the invalid-index
\* answer of its route, and the handler has not gone to the store, so the
\* space is unchanged.
C27_InvalidIndexRejected ==
  \A r \in Requests :
    req[r].sent # <<>>
    => /\ (req[r].op = "remove" /\ ~IsIntegerParam(req[r].sent[1]))
          => /\ req[r].status = 400
             /\ req[r].error = "Invalid index: must be a non-negative integer"
             /\ req[r].stage = 0
       /\ (req[r].op = "recordPick" /\ ~IsIntegerInput(req[r].sent[1]))
          => /\ req[r].status = 400
             /\ req[r].error = "Invalid index"
             /\ req[r].stage = 0

\* ---- the step in which r's removeItem commits
CommitsRemove(r) == req[r].pc = "removeItemCommit" /\ req'[r].pc = "getSpace"

\* a read that is answered with the space it selected
ReadAnswered(r) ==
  /\ req'[r].op \in {"list", "getPicked"}
  /\ ~Done(r) /\ Done(r)'
  /\ req'[r].status = 200

\* C28: a removal is never visible half-applied.  Whenever the stored list
\* of a key gets shorter, the same step stores the lastPicked the removal
\* leaves (absent when its index was at or above the removed one), and a
\* listItems or getPicked running at any moment is answered from the row as
\* stored at one instant: the list and lastPicked from before the removal,
\* or both from after it.
C28_RemovalAtomic ==
  [][\A k \in SpaceIds :
       /\ Len(SpaceOf(db'[k]).items) < Len(SpaceOf(db[k]).items)
          => \E r \in Requests :
               /\ CommitsRemove(r) /\ On(r, k)
               /\ SpaceOf(db'[k]).items
                    = splice(SpaceOf(db[k]).items, req[r].index)
               /\ SpaceOf(db'[k]).lastPicked
                    = IF /\ SpaceOf(db[k]).lastPicked # null
                         /\ SpaceOf(db[k]).lastPicked[1].index >= req[r].index
                        THEN null
                        ELSE SpaceOf(db[k]).lastPicked
       /\ \A g \in Requests :
            (ReadAnswered(g) /\ On(g, k)')
            => /\ req'[g].op = "list"
                  => req'[g].resItems = SpaceOf(db'[k]).items
               /\ req'[g].op = "getPicked"
                  => req'[g].resPicked = SpaceOf(db'[k]).lastPicked]_vars

\* C28 witness: a getPicked overlapped a removal that cleared the stored
\* pick, and was answered after the removal had committed with no pick.
C28_Witness ==
  \E r, g \in Requests :
    /\ req[r].op = "remove" /\ Done(r) /\ req[r].status = 200
    /\ req[g].op = "getPicked" /\ Done(g) /\ req[g].status = 200
    /\ Overlap(r, g)
    /\ req[g].spaceId = req[r].spaceId
    /\ SpaceOf(db0[req[r].spaceId]).lastPicked # null
    /\ req[g].resPicked = null
    /\ Len(SpaceOf(db[req[r].spaceId]).items)
         < Len(SpaceOf(db0[req[r].spaceId]).items)

\* ---- a step taken by a listItems or getPicked request
ReadStep(r) ==
  /\ req'[r] # req[r]
  /\ req'[r].op \in {"list", "getPicked"}

\* C29: namespace initialization is idempotent.  No step of a listItems or
\* getPicked changes a row that exists; the only change such a request
\* makes is to create, for its own key when it has no row, the space with
\* no items and no pick.
C29_InitIdempotent ==
  [][\A r \in Requests :
       ReadStep(r)
       => \A k \in SpaceIds :
            \/ db'[k] = db[k]
            \/ /\ db[k] = <<>>
               /\ db'[k] = <<EmptyData>>
               /\ On(r, k)']_vars

\* C29 witness: listItems and then getPicked ran on a space that holds items
\* and a pick, both were answered with what is stored, and the table is as
\* it was.
C29_Witness ==
  \E r, g \in Requests :
    /\ req[r].op = "list" /\ Done(r) /\ req[r].status = 200
    /\ req[g].op = "getPicked" /\ Done(g) /\ req[g].status = 200
    /\ r \in req[g].pred
    /\ req[g].spaceId = req[r].spaceId
    /\ req[r].resItems # <<>>
    /\ req[g].resPicked # null
    /\ db = db0

\* C30: a removeItem at index i that commits removes exactly the element at
\* index i: the stored list gets one shorter, every element before i keeps
\* its index and every element after i moves down by one.
C30_RemovesExactlyOne ==
  [][\A k \in SpaceIds : \A r \in Requests :
       (CommitsRemove(r) /\ On(r, k))
       => LET before == SpaceOf(db[k]).items
              after == SpaceOf(db'[k]).items
              i == req[r].index
          IN /\ i < Len(before)
             /\ Len(after) = Len(before) - 1
             /\ \A j \in 0..(Len(after) - 1) :
                  after[j + 1] = IF j < i THEN before[j + 1] ELSE before[j + 2]]_vars

\* C30 witness: a removal at index 0 was answered 200 on a list of at least
\* two items, and the item that stood at index 1 now stands at index 0.
C30_Witness ==
  \E r \in Requests :
    /\ req[r].op = "remove" /\ Done(r) /\ req[r].status = 200
    /\ req[r].index = 0
    /\ \A t \in Requests \ {r} : Idle(t)
    /\ Len(SpaceOf(db0[req[r].spaceId]).items) >= 2
    /\ SpaceOf(db[req[r].spaceId]).items
         = Tail(SpaceOf(db0[req[r].spaceId]).items)

\* ---- positions of a handler between getClient and client.release()
HoldsClient ==
  {"addItemCommit", "addItemRollback", "removeItemCommit", "removeItemRollback"}

\* C40: every pool client a handler checks out is released exactly once on
\* every path: a handler holds one client while it is inside addItem or
\* removeItem and none otherwise, never gives back a client it does not
\* hold, and once every request is answered no client is checked out.
C40_ClientsReleased ==
  \A r \in Requests :
    /\ req[r].client = IF req[r].pc \in HoldsClient THEN 1 ELSE 0
    /\ Done(r) => req[r].client = 0

\* C40 witness: the COMMIT of a removal failed, the ROLLBACK of its catch
\* block was sent to the database that is down, and the request was
\* answered holding no client.
C40_Witness ==
  \E r \in Requests :
    /\ req[r].op = "remove" /\ Done(r)
    /\ req[r].thrown = "COMMIT"
    /\ ~dbUp
    /\ req[r].client = 0

\* C35: the stored lastPicked of a key changes only in the step of a
\* recordPick that succeeds or in the commit of a removeItem whose index is
\* at or below the stored pick's index; the commit of an addItem, a
\* removeItem above the pick's index, a read and a request that is rejected
\* leave it as it was.
C35_PickChangesOnlyBy ==
  [][\A k \in SpaceIds :
       LET before == SpaceOf(db[k]).lastPicked
           after == SpaceOf(db'[k]).lastPicked
       IN /\ after # before
             => \E r \in Requests :
                  /\ On(r, k)
                  /\ \/ RecordsPick(r)
                     \/ /\ CommitsRemove(r)
                        /\ before # null
                        /\ req[r].index <= before[1].index
          /\ \A r \in Requests :
               (/\ On(r, k)
                /\ \/ CommitsAdd(r)
                   \/ /\ CommitsRemove(r)
                      /\ before # null
                      /\ req[r].index > before[1].index
                   \/ ~Done(r) /\ Done(r)' /\ req'[r].status # 200
                   \/ /\ req'[r] # req[r]
                      /\ req'[r].op \in {"list", "getPicked"})
               => after = before]_vars

\* C35 witness: a removal above the stored pick's index was answered with
\* success, the list is shorter and the pick is the one stored at the start.
C35_Witness ==
  \E r \in Requests :
    /\ req[r].op = "remove" /\ Done(r) /\ req[r].status = 200
    /\ SpaceOf(db0[req[r].spaceId]).lastPicked # null
    /\ req[r].index > SpaceOf(db0[req[r].spaceId]).lastPicked[1].index
    /\ Len(SpaceOf(db[req[r].spaceId]).items)
         < Len(SpaceOf(db0[req[r].spaceId]).items)
    /\ SpaceOf(db[req[r].spaceId]).lastPicked
         = SpaceOf(db0[req[r].spaceId]).lastPicked

\* C36: when an addItem and a recordPick on one key overlapped, both
\* succeeded and no other request changed the key, neither update is lost:
\* the stored list holds the added item and the stored lastPicked is the
\* pick that was recorded.
C36_NeitherLost ==
  \A a, p \in Requests :
    (/\ req[a].op = "add" /\ Done(a) /\ req[a].status = 200
     /\ req[p].op = "recordPick" /\ Done(p) /\ req[p].status = 200
     /\ req[a].spaceId = req[p].spaceId
     /\ Overlap(a, p)
     /\ \A o \in Requests \ {a, p} :
          req[o].op \in {"none", "list", "getPicked"})
    => LET space == SpaceOf(db[req[a].spaceId])
       IN /\ \E i \in 1..Len(space.items) : space.items[i] = req[a].value
          /\ space.lastPicked = req[p].resPicked
          /\ space.lastPicked = PickOf(req[p])

\* C36 witness: an addItem and a recordPick that overlapped on one key were
\* both answered with success; the list is one longer than at the start and
\* the stored pick is not the one stored at the start.
C36_Witness ==
  \E a, p \in Requests :
    /\ req[a].op = "add" /\ Done(a) /\ req[a].status = 200
    /\ req[p].op = "recordPick" /\ Done(p) /\ req[p].status = 200
    /\ req[a].spaceId = req[p].spaceId
    /\ Overlap(a, p)
    /\ Len(SpaceOf(db[req[a].spaceId]).items)
         = Len(SpaceOf(db0[req[a].spaceId]).items) + 1
    /\ SpaceOf(db[req[a].spaceId]).lastPicked = req[p].resPicked
    /\ SpaceOf(db[req[a].spaceId]).lastPicked
         # SpaceOf(db0[req[a].spaceId]).lastPicked

\* C37: an addItem or removeItem request that is answered with an error has
\* not changed the stored space.  When every add and remove so far was
\* answered with an error and no pick was recorded, every space holds the
\* list and lastPicked it held at the start.
C37_ErrorMeansUnchanged ==
  (/\ \A r \in Requests :
        req[r].op \in {"none", "list", "getPicked", "add", "remove"}
   /\ \A r \in Requests :
        req[r].op \in {"add", "remove"}
        => Done(r) /\ req[r].status # 200)
  => \A k \in SpaceIds : SpaceOf(db[k]) = SpaceOf(db0[k])

\* ------------------------------------------------ the file-backed server
\* The server that kept the spaces in DATA_FILE (docs/database-schema.md).
\* dataFile[namespace] is <<>> when the file has no entry for the namespace,
\* else <<entry>>; the timestamps of an entry (created, lastModified) are
\* left out.  A handler's position advances at its awaits; what follows the
\* settling of a promise in the same turn of the event loop is part of the
\* step that settles it.  A file operation that fails leaves the file as it
\* was.

Namespaces == DOMAIN dataFile

\* the files a run begins on: the first namespace with room for an item,
\* the second without an entry or with one item
InitialFiles ==
  LET first == hashPassword(Password1)
      second == hashPassword(Password2)
  IN {[k \in {first, second} |->
         IF k = first
           THEN <<[items |-> [i \in 1..n |-> <<Letters[i]>>],
                   lastPicked |-> null]>>
           ELSE other] :
        n \in 0..(MaxItems - 1),
        other \in {<<>>,
                   <<[items |-> << <<Letters[1]>> >>, lastPicked |-> null]>>}}

\* The file-backed server begins on a file with nothing queued; held[r] is
\* the password of the client that will send request r.
StartLegacy(file, held) ==
  /\ db = <<>>
  /\ lock = <<>>
  /\ db0 = <<>>
  /\ dbUp = TRUE
  /\ req = [r \in Requests |-> [IdleReq EXCEPT !.password = <<held[r]>>]]
  /\ dataFile = file
  /\ writeQueue = <<>>
  /\ isWriting = FALSE
  /\ inProgress = {}
  /\ settled = [r \in Requests |-> 0]
  /\ NoWebClient

\* Clients of two passwords on the file-backed server: the last client
\* holds the second password or shares the first with the others.
InitLegacy ==
  \E file \in InitialFiles : \E last \in AllPasswords :
    StartLegacy(file, [r \in Requests |->
                         IF r = NumReq THEN last ELSE Password1])

\* Clients that share one password, on a file whose first namespace holds
\* no item and whose second has no entry.
InitLegacyLive ==
  \E file \in InitialFiles :
    /\ file[hashPassword(Password1)][1].items = <<>>
    /\ file[hashPassword(Password2)] = <<>>
    /\ StartLegacy(file, [r \in Requests |-> Password1])

\* processWriteQueue that starts a write while another is in progress
processWriteQueue_unguarded(queue, writing, running) ==
  IF queue = <<>>
    THEN [writeQueue |-> queue, isWriting |-> writing, inProgress |-> running]
    ELSE [writeQueue |-> Tail(queue),
          isWriting |-> TRUE,
          inProgress |-> running \cup {[Head(queue) EXCEPT !.pc = "readFile"]}]

\* processWriteQueue up to its first await: it returns when a write is in
\* progress or nothing is queued, else it sets isWriting, shifts the first
\* entry off the queue and starts reading the file.
processWriteQueue(queue, writing, running) ==
  IF writing \/ queue = <<>>
    THEN [writeQueue |-> queue, isWriting |-> writing, inProgress |-> running]
    ELSE [writeQueue |-> Tail(queue),
          isWriting |-> TRUE,
          inProgress |-> running \cup {[Head(queue) EXCEPT !.pc = "readFile"]}]

\* writeData: the entry is pushed on the queue and processWriteQueue called;
\* `by` is the request that awaits the promise
writeData(namespace, data, by) ==
  processWriteQueue(
    Append(writeQueue,
           [namespace |-> namespace, data |-> data, by |-> by,
            pc |-> "queued", parsed |-> [k \in Namespaces |-> <<>>]]),
    isWriting, inProgress)

\* the finally block of processWriteQueue for the write w: isWriting is
\* cleared and processWriteQueue called for the next entry
finally(w) == processWriteQueue(writeQueue, FALSE, inProgress \ {w})

\* POST /api/items of the file-backed server, up to its await of readData
PostItemsFile(r) ==
  /\ CanStart(r)
  /\ \E header \in PasswordHeaders(r) :
       LET q == Begin(r, "add", header)
           namespace == validatePassword(header)
       IN IF namespace = <<>>
            THEN req' = [req EXCEPT ![r] = PasswordRequired(q)]
            ELSE \E item \in ItemInputsOf(r) :
              LET validation == validateItem(item) IN
                req' = [req EXCEPT ![r] =
                  IF ~validation.valid THEN Respond(q, 400, validation.error)
                  ELSE [q EXCEPT !.value = validation.value,
                                 !.spaceId = namespace,
                                 !.pc = "readData"]]
  /\ UNCHANGED <<db, lock, db0, dbUp, fileVars, webVars>>

\* POST /api/items of the file-backed server from the answer of readData to
\* its await of writeData.  readData returns the entry of the namespace as
\* the file holds it, an empty entry when the file has none, and an empty
\* entry when the file cannot be read.
ReadData(r) ==
  LET q == req[r] IN
    /\ q.pc = "readData"
    /\ \E ok \in BOOLEAN :
         LET data == IF ok THEN SpaceOf(dataFile[q.spaceId]) ELSE EmptyData
             pushed == [data EXCEPT !.items = Append(data.items, q.value)]
             next == writeData(q.spaceId, pushed, r)
         IN IF includes(data.items, q.value)
              THEN /\ req' = [req EXCEPT ![r] =
                        Respond(q, 409, "Item already exists")]
                   /\ UNCHANGED <<writeQueue, isWriting, inProgress>>
            ELSE IF Len(data.items) >= MaxItems
              THEN /\ req' = [req EXCEPT ![r] =
                        Respond(q, 400,
                                "Maximum number of items (1000) reached")]
                   /\ UNCHANGED <<writeQueue, isWriting, inProgress>>
            ELSE /\ req' = [req EXCEPT ![r] =
                      [q EXCEPT !.pc = "writeData", !.data = pushed]]
                 /\ writeQueue' = next.writeQueue
                 /\ isWriting' = next.isWriting
                 /\ inProgress' = next.inProgress
    /\ UNCHANGED <<db, lock, db0, dbUp, dataFile, settled, webVars>>

\* processWriteQueue whose catch block leaves isWriting set
FileRead_stops_on_error(r) ==
  \E w \in inProgress :
  /\ w.by = r
  /\ w.pc = "readFile"
  /\ \E ok \in BOOLEAN :
       IF ok
         THEN /\ inProgress' = (inProgress \ {w}) \cup
                   {[w EXCEPT !.pc = "writeFile", !.parsed = dataFile]}
              /\ UNCHANGED <<req, writeQueue, isWriting, settled>>
         ELSE /\ req' = [req EXCEPT ![w.by] = Caught(@)]
              /\ settled' = [settled EXCEPT ![w.by] = @ + 1]
              /\ inProgress' = inProgress \ {w}
              /\ UNCHANGED <<writeQueue, isWriting>>
  /\ UNCHANGED <<db, lock, db0, dbUp, dataFile, webVars>>

\* processWriteQueue for the write of request r: fs.readFile of the whole
\* file is answered.  When it
\* fails the promise is rejected, the finally block runs and the handler
\* that awaits the promise answers from its catch block.
FileRead(r) ==
  \E w \in inProgress :
  /\ w.by = r
  /\ w.pc = "readFile"
  /\ \E ok \in BOOLEAN :
       IF ok
         THEN /\ inProgress' = (inProgress \ {w}) \cup
                   {[w EXCEPT !.pc = "writeFile", !.parsed = dataFile]}
              /\ UNCHANGED <<req, writeQueue, isWriting, settled>>
         ELSE /\ req' = [req EXCEPT ![w.by] = Caught(@)]
              /\ settled' = [settled EXCEPT ![w.by] = @ + 1]
              /\ writeQueue' = finally(w).writeQueue
              /\ isWriting' = finally(w).isWriting
              /\ inProgress' = finally(w).inProgress
  /\ UNCHANGED <<db, lock, db0, dbUp, dataFile, webVars>>

\* processWriteQueue that writes a file holding its own namespace only
FileWrite_own_entry_only(r) ==
  \E w \in inProgress :
  /\ w.by = r
  /\ w.pc = "writeFile"
  /\ \E ok \in BOOLEAN :
       IF ok
         THEN /\ dataFile' = [k \in Namespaces |->
                                IF k = w.namespace THEN <<w.data>> ELSE <<>>]
              /\ req' = [req EXCEPT ![w.by] =
                   Respond([@ EXCEPT !.resItems = w.data.items], 200, "")]
         ELSE /\ req' = [req EXCEPT ![w.by] = Caught(@)]
              /\ UNCHANGED dataFile
  /\ settled' = [settled EXCEPT ![w.by] = @ + 1]
  /\ writeQueue' = finally(w).writeQueue
  /\ isWriting' = finally(w).isWriting
  /\ inProgress' = finally(w).inProgress
  /\ UNCHANGED <<db, lock, db0, dbUp, webVars>>

\* processWriteQueue: fs.writeFile of the file it read, with the entry of
\* its namespace replaced by its data, is answered.  The promise is
\* resolved, or rejected when the write failed; the finally block runs and
\* the handler that awaits the promise answers.
FileWrite(r) ==
  \E w \in inProgress :
  /\ w.by = r
  /\ w.pc = "writeFile"
  /\ \E ok \in BOOLEAN :
       IF ok
         THEN /\ dataFile' = [w.parsed EXCEPT ![w.namespace] = <<w.data>>]
              /\ req' = [req EXCEPT ![w.by] =
                   Respond([@ EXCEPT !.resItems = w.data.items], 200, "")]
         ELSE /\ req' = [req EXCEPT ![w.by] = Caught(@)]
              /\ UNCHANGED dataFile
  /\ settled' = [settled EXCEPT ![w.by] = @ + 1]
  /\ writeQueue' = finally(w).writeQueue
  /\ isWriting' = finally(w).isWriting
  /\ inProgress' = finally(w).inProgress
  /\ UNCHANGED <<db, lock, db0, dbUp, webVars>>

NextLegacy ==
  \E r \in Requests :
    \/ PostItemsFile(r)
    \/ ReadData(r)
    \/ FileRead(r)
    \/ FileWrite(r)

SpecLegacy == InitLegacy /\ [][NextLegacy]_vars

\* The file system answers every read and write that was started.
SpecLegacyLive ==
  /\ InitLegacyLive
  /\ [][NextLegacy]_vars
  /\ WF_vars(\E r \in Requests : FileRead(r))
  /\ WF_vars(\E r \in Requests : FileWrite(r))

\* C31: the write queue of the file-backed server prevents races between
\* requests: when two POST /api/items that overlapped added different items
\* to one namespace and both were answered with success, the file holds both
\* items.
C31_BothPersisted ==
  \A a, b \in Requests :
    (/\ a # b
     /\ req[a].op = "add" /\ Done(a) /\ req[a].status = 200
     /\ req[b].op = "add" /\ Done(b) /\ req[b].status = 200
     /\ req[a].spaceId = req[b].spaceId
     /\ req[a].value # req[b].value
     /\ Overlap(a, b))
    => LET items == SpaceOf(dataFile[req[a].spaceId]).items
       IN includes(items, req[a].value) /\ includes(items, req[b].value)

\* C32: at most one read-modify-write of the data file by processWriteQueue
\* is in progress at any time, and isWriting is true exactly while one is.
C32_OneWriteAtATime ==
  /\ Cardinality(inProgress) <= 1
  /\ isWriting <=> inProgress # {}

\* C32 witness: a write has read the file and not yet written it while the
\* write of another request waits in the queue.
C32_Witness ==
  /\ writeQueue # <<>>
  /\ isWriting
  /\ \E w \in inProgress : w.pc = "writeFile"

\* C33: every write that writeData queued is eventually taken off the queue
\* and its promise settled exactly once, a write that failed does not stop
\* the ones behind it, and the queue ends empty with isWriting false.
C33_EveryWriteSettles ==
  /\ \A r \in Requests :
       /\ [](settled[r] <= 1)
       /\ [](Done(r) => settled[r] = IF req[r].data = EmptyData THEN 0 ELSE 1)
       /\ (req[r].pc = "writeData") ~> (Done(r) /\ settled[r] = 1)
  /\ <>[](writeQueue = <<>> /\ ~isWriting /\ inProgress = {})

\* C33 witness: the write of one request failed and was rejected, the write
\* of a request that overlapped it was resolved, each promise was settled
\* once and nothing is queued or in progress.
C33_Witness ==
  \E r, s \in Requests :
    /\ Done(r) /\ req[r].status = 500 /\ settled[r] = 1
    /\ Done(s) /\ req[s].status = 200 /\ settled[s] = 1
    /\ Overlap(r, s)
    /\ writeQueue = <<>> /\ ~isWriting /\ inProgress = {}

\* C34: a write for a namespace replaces the entry of that namespace only:
\* in the step that changes the file or answers a POST with success, the
\* entry of the write's namespace becomes its data and every other entry is
\* what it was just before the step.
C34_OnlyOwnEntry ==
  [][(\/ dataFile' # dataFile
      \/ \E r \in Requests : ~Done(r) /\ Done(r)' /\ req'[r].status = 200)
     => \E w \in inProgress :
          /\ w.pc = "writeFile"
          /\ dataFile'[w.namespace] = <<w.data>>
          /\ \A k \in Namespaces \ {w.namespace} : dataFile'[k] = dataFile[k]
    ]_vars

\* C34 witness: an item was added to one namespace while the file held an
\* entry for another, which is still there.
C34_Witness ==
  \E r \in Requests :
    /\ Done(r) /\ req[r].status = 200
    /\ dataFile[req[r].spaceId] = <<req[r].data>>
    /\ \E k \in Namespaces \ {req[r].spaceId} : dataFile[k] # <<>>

\* -------------------------------------------------------- the web client
\* The App component (product/web/src/App.jsx) of one browser tab and the
\* server it talks to.  app holds the component's state; pending holds the
\* fetches and the pick timers that have not finished, each with the values
\* its handler's closure captured when it started.  The server handles each
\* fetch at one instant between its sending and its answer.  itemsOf and
\* pickedOf record the password under which the shown list and the shown
\* pick were obtained.

\* Number of fetches that the handlers of one run send, the post of a pick
\* counted when its button is pressed.
MaxFetches == 3

\* what the user may type as an item
TypedItems == {<<Letters[1]>>, <<Letters[2]>>}

NoFetch ==
  [kind |-> "none", password |-> <<>>, item |-> <<>>, index |-> 0,
   items |-> <<>>, pickedItem |-> null, served |-> FALSE, ok |-> FALSE,
   resItems |-> <<>>]

\* the table a run of the client begins on: the first space full, the
\* second with one item
WebTables ==
  LET first == hashPassword(Password1)
      second == hashPassword(Password2)
  IN {[k \in {first, second} |->
         IF k = first
           THEN <<[items |-> [i \in 1..MaxItems |-> <<Letters[i]>>],
                   lastPicked |-> null]>>
           ELSE <<[items |-> << <<Letters[2]>> >>, lastPicked |-> null]>>]}

\* The component after its mount with no stored password: the login form.
InitWeb ==
  \E table \in WebTables :
    /\ db = table
    /\ lock = [k \in DOMAIN table |-> 0]
    /\ req = [r \in Requests |-> IdleReq]
    /\ db0 = table
    /\ dbUp = TRUE
    /\ NoFileServer
    /\ app = [items |-> <<>>, pickedItem |-> null, isAnimating |-> FALSE,
              isLoading |-> FALSE, password |-> <<>>,
              isAuthenticated |-> FALSE,
              itemsOf |-> <<>>, pickedOf |-> <<>>, fetches |-> 0]
    /\ pending = {}

\* a handler may send one more fetch
CanFetch == app.fetches < MaxFetches

\* the main view with its form, list and pick button is shown
MainView == app.isAuthenticated /\ ~app.isLoading

\* handlePasswordSubmit: the password is stored and fetchItems called with
\* it, which sets isLoading and sends GET /items
handlePasswordSubmit ==
  /\ ~app.isAuthenticated
  /\ CanFetch
  /\ \E trimmedPassword \in AllPasswords :
       /\ app' = [app EXCEPT !.password = <<trimmedPassword>>,
                             !.isAuthenticated = TRUE,
                             !.isLoading = TRUE,
                             !.fetches = @ + 1]
       /\ pending' = pending \cup
            {[NoFetch EXCEPT !.kind = "fetchItems",
                             !.password = trimmedPassword]}
  /\ UNCHANGED <<db, lock, req, db0, dbUp, fileVars>>

\* handleLogout
handleLogout ==
  /\ app.isAuthenticated
  /\ app' = [app EXCEPT !.password = <<>>,
                        !.isAuthenticated = FALSE,
                        !.items = <<>>,
                        !.pickedItem = null,
                        !.itemsOf = <<>>,
                        !.pickedOf = <<>>]
  /\ UNCHANGED <<db, lock, req, db0, dbUp, fileVars, pending>>

\* handleAddItem up to its await of fetch
handleAddItem ==
  /\ MainView
  /\ CanFetch
  /\ \E inputValue \in TypedItems :
       /\ pending' = pending \cup
            {[NoFetch EXCEPT !.kind = "add",
                             !.password = app.password[1],
                             !.item = inputValue]}
  /\ app' = [app EXCEPT !.fetches = @ + 1]
  /\ UNCHANGED <<db, lock, req, db0, dbUp, fileVars>>

\* handleRemoveItem up to its await of fetch; the closure keeps the
\* pickedItem of the render in which the button was pressed
handleRemoveItem ==
  /\ MainView
  /\ CanFetch
  /\ \E indexToRemove \in 0..(Len(app.items) - 1) :
       /\ pending' = pending \cup
            {[NoFetch EXCEPT !.kind = "remove",
                             !.password = app.password[1],
                             !.index = indexToRemove,
                             !.pickedItem = app.pickedItem]}
  /\ app' = [app EXCEPT !.fetches = @ + 1]
  /\ UNCHANGED <<db, lock, req, db0, dbUp, fileVars>>

\* handleRandomPick: the button is disabled while the list is empty or a
\* pick is animating; the timer's closure keeps the items and the password
\* of the render in which the button was pressed
handleRandomPick ==
  /\ MainView
  /\ CanFetch
  /\ app.items # <<>>
  /\ ~app.isAnimating
  /\ app' = [app EXCEPT !.isAnimating = TRUE,
                        !.pickedItem = null,
                        !.pickedOf = <<>>,
                        !.fetches = @ + 1]
  /\ pending' = pending \cup
       {[NoFetch EXCEPT !.kind = "timer",
                        !.password = app.password[1],
                        !.items = app.items]}
  /\ UNCHANGED <<db, lock, req, db0, dbUp, fileVars>>

\* the callback of handleRandomPick's setTimeout: a random element of the
\* captured items becomes the picked item and is posted to /picked
pickTimeout ==
  /\ \E t \in pending :
       /\ t.kind = "timer"
       /\ \E randomIndex \in 0..(Len(t.items) - 1) :
            LET picked == [name |-> t.items[randomIndex + 1],
                           index |-> randomIndex]
            IN /\ app' = [app EXCEPT !.pickedItem = <<picked>>,
                                     !.isAnimating = FALSE,
                                     !.pickedOf = <<t.password>>]
               /\ pending' = (pending \ {t}) \cup
                    {[NoFetch EXCEPT !.kind = "savePick",
                                     !.password = t.password,
                                     !.item = picked.name,
                                     !.index = picked.index]}
  /\ UNCHANGED <<db, lock, req, db0, dbUp, fileVars>>

\* the request that a fetch sends
RequestOf(f) ==
  [op |-> CASE f.kind = "fetchItems" -> "list"
            [] f.kind = "add" -> "add"
            [] f.kind = "remove" -> "remove"
            [] OTHER -> "recordPick",
   value |-> f.item, index |-> f.index,
   spaceId |-> hashPassword(f.password)]

\* the server handles a fetch
serverAnswers ==
  /\ \E f \in pending :
       /\ f.kind \in {"fetchItems", "add", "remove", "savePick"}
       /\ ~f.served
       /\ LET q == RequestOf(f)
              out == SeqApply(db[q.spaceId], q)
          IN /\ db' = [db EXCEPT ![q.spaceId] = out.rows]
             /\ pending' = (pending \ {f}) \cup
                  {[f EXCEPT !.served = TRUE,
                             !.ok = (out.response.status = 200),
                             !.resItems = out.response.items]}
  /\ UNCHANGED <<lock, req, db0, dbUp, fileVars, app>>

\* a handler goes on after its await of fetch: fetchItems, handleAddItem
\* and handleRemoveItem set the items of a response that is ok, and
\* handleRemoveItem clears the picked item when its captured pickedItem has
\* the removed index; the answer to the post of a pick is ignored
fetchResolves ==
  /\ \E f \in pending :
       /\ f.served
       /\ pending' = pending \ {f}
       /\ LET shown == IF f.ok /\ f.kind \in {"fetchItems", "add", "remove"}
                         THEN [app EXCEPT !.items = f.resItems,
                                          !.itemsOf = <<f.password>>]
                         ELSE app
              cleared == IF /\ f.ok /\ f.kind = "remove"
                            /\ f.pickedItem # null
                            /\ f.pickedItem[1].index = f.index
                           THEN [shown EXCEPT !.pickedItem = null,
                                              !.pickedOf = <<>>]
                           ELSE shown
          IN app' = IF f.kind = "fetchItems"
                      THEN [cleared EXCEPT !.isLoading = FALSE]
                      ELSE cleared
  /\ UNCHANGED <<db, lock, req, db0, dbUp, fileVars>>

NextWeb ==
  \/ handlePasswordSubmit
  \/ handleLogout
  \/ handleAddItem
  \/ handleRemoveItem
  \/ handleRandomPick
  \/ pickTimeout
  \/ serverAnswers
  \/ fetchResolves

SpecWeb == InitWeb /\ [][NextWeb]_vars

\* C38: whenever the main view shows a picked item and no pick is
\* animating, the picked item is in the shown list at its index: its index
\* is below the length of the list and the item there is the picked one.
C38_PickInList ==
  (MainView /\ app.pickedItem # null /\ ~app.isAnimating)
  => /\ app.pickedItem[1].index < Len(app.items)
     /\ app.items[app.pickedItem[1].index + 1] = app.pickedItem[1].name

\* C39: the list and the picked item shown under a password were obtained
\* under that password: after a logout and a login with another password
\* no answer to a fetch and no pick timer of the earlier password sets them.
C39_ShownBelongsToSpace ==
  app.isAuthenticated
  => /\ app.itemsOf \in {<<>>, app.password}
     /\ app.pickedOf \in {<<>>, app.password}

====
